---- MODULE Spec2Model ----
(***************************************************************************)
(* Agent Consent Protocol, Python SDK (sdk/python/acp).                    *)
(*                                                                         *)
(* The model follows one process that constructs an ACPClient, then calls  *)
(* request_consent directly or through a function wrapped by               *)
(* @requires_consent.  The gateway session (_request_gateway) is modelled  *)
(* step by step: the submit and every iteration of the poll loop are       *)
(* actions whose inputs (the authority's replies, transport failures, the  *)
(* time that passes) are drawn from bounded sets.  A program uses a client *)
(* of its own or the decorator with the module's default client; the two   *)
(* clients share nothing but the environment.                              *)
(*                                                                         *)
(* Python values: None is the string "None"; a dict is a record whose      *)
(* DOMAIN holds exactly the keys that are present; an optional response    *)
(* is a sequence of length 0 or 1.                                         *)
(***************************************************************************)
EXTENDS Integers, Sequences, FiniteSets, TLC

VARIABLES
    env,              \* os.environ: ACP_GATEWAY_URL, ACP_TELEGRAM_TOKEN
    client,           \* the ACPClient the program constructed: <<>> or <<fields>>
    _default_client,  \* decorators._default_client: <<>> or <<fields>>
    pc,               \* position of the process
    calls,            \* request_consent calls made so far
    call,             \* the call in progress: who called, which client, the request
    now,              \* time.time(), relative to the entry of the current call
    sess,             \* the gateway session: request_id, start, what it has seen
    ret,              \* value returned by request_consent: <<>> or <<ConsentResponse>>
    exc,              \* exception that left the call, "None" when none
    body_runs,        \* executions of the wrapped function's body in this call
    responses,        \* ConsentResponse values produced for the current request
    channels,         \* handlers the request of the current call was handed to
    issued,           \* what an authority signed: <<>> or <<request, payload, ...>>
    presented,        \* the proof, response and request a caller holds: <<>> or <<...>>
    last,             \* the latest proof verification: <<>> or <<inputs and outcome>>
    accepted,         \* nonces of the requests whose verification has succeeded
    classified,       \* a call of classify_tool in progress: <<>> or <<arguments, result>>
    sessions,         \* the calls of prompt_telegram in progress, one per request
    bot,              \* the updates the Telegram bot holds, and the last one confirmed
    canonicalized,    \* a call of canonical_json in progress: <<>> or <<values and texts>>
    terminal          \* the plain terminal prompt: its position, the lines read, its result

\* the state of the consent calls, and the state of proof verification
consent == <<env, client, _default_client, pc, calls, call, now, sess, ret, exc,
             body_runs, responses, channels>>

verification == <<issued, presented, last, accepted>>

\* the state of the Telegram channel
telegram == <<sessions, bot>>

vars == <<consent, verification, classified, telegram, canonicalized, terminal>>

----------------------------------------------------------------------------
(* Bounds of the model *)

\* request_consent calls per run
MaxCalls == 2
\* updates the Telegram bot receives per run
MaxUpdates == 2
\* lines a human types at one plain prompt
MaxReads == 3
\* timeout_seconds of a client is 0 or MaxTimeout (the constructor's default,
\* 900, lies outside any practical bound: the default client gets MaxTimeout)
MaxTimeout == 3
\* an HTTP call returns after 0..MaxLatency time units
MaxLatency == 1

(* Program constants *)

\* time.sleep(2) in the poll loop
POLL_SLEEP == 2

None == "None"

\* truth value of a string or None
Truthy(v) == v \notin {None, ""}

\* a or b
Or(a, b) == IF Truthy(a) THEN a ELSE b

\* d.get(k, default)
Get(d, k, default) == IF k \in DOMAIN d THEN d[k] ELSE default

----------------------------------------------------------------------------
(* types.py *)

ActionCategory ==
    {"communication", "financial", "data", "system", "public", "identity", "physical"}

RiskLevel == {"low", "medium", "high", "critical"}

ConsentDecision == {"approved", "denied", "approved_with_modifications", "expired"}

\* A tool name is the sequence of its pieces between underscores, in lower
\* case ("delete_file" is <<"delete", "file">>), together with the way it is
\* written: in upper case or not, with a leading blank or not, with a trailing
\* blank or not.
Spellings == [upper : BOOLEAN, lead : BOOLEAN, trail : BOOLEAN]

Plain == [upper |-> FALSE, lead |-> FALSE, trail |-> FALSE]

Padded == [upper |-> TRUE, lead |-> TRUE, trail |-> TRUE]

ToolNames ==
    { <<"read", "file">>, <<"delete", "file">>, <<"get", "report">>,
      <<"frobnicate", "widget">>, <<"deploy">> }

\* tool names the calls of request_consent are made with
ToolInputs == [text : ToolNames, spelling : {Plain, Padded}]

\* str.lower()
lower(name) == [name EXCEPT !.spelling.upper = FALSE]

\* str.strip()
strip(name) == [name EXCEPT !.spelling.lead = FALSE, !.spelling.trail = FALSE]

\* tool_name.lower().strip()
Normalize(tool) == strip(lower(tool))

\* the rows of _TOOL_CLASSIFICATIONS for the names the model uses
_TOOL_CLASSIFICATIONS ==
    ( <<"read", "file">>   :> <<"data", "low">> ) @@
    ( <<"delete", "file">> :> <<"data", "high">> ) @@
    ( <<"send", "slack">>  :> <<"communication", "medium">> ) @@
    ( <<"create", "post">> :> <<"public", "high">> ) @@
    ( <<"deploy">>         :> <<"system", "critical">> )

\* _TOOL_PREFIXES in insertion order; the prefix "read_" is <<"read">>
_TOOL_PREFIXES ==
    << <<"read",   <<"data", "low">> >>,
       <<"get",    <<"data", "low">> >>,
       <<"list",   <<"data", "low">> >>,
       <<"fetch",  <<"data", "low">> >>,
       <<"search", <<"data", "low">> >>,
       <<"send",   <<"communication", "high">> >>,
       <<"delete", <<"data", "high">> >>,
       <<"remove", <<"data", "high">> >>,
       <<"create", <<"data", "medium">> >>,
       <<"update", <<"data", "medium">> >>,
       <<"deploy", <<"system", "critical">> >>,
       <<"post",   <<"public", "high">> >> >>

\* name in _TOOL_CLASSIFICATIONS: the keys of the table are plain
InTable(name) == name.spelling = Plain /\ name.text \in DOMAIN _TOOL_CLASSIFICATIONS

\* name.startswith(prefix + "_"), the prefix in lower case
StartsWith(name, prefix) ==
    /\ ~name.spelling.lead
    /\ ~name.spelling.upper
    /\ Len(name.text) >= 2
    /\ name.text[1] = prefix

\* ActionCategory(override_category) or RiskLevel(override_risk) raises
classify_tool_raises(override_category, override_risk) ==
    \/ Truthy(override_category) /\ override_category \notin ActionCategory
    \/ Truthy(override_risk) /\ override_risk \notin RiskLevel

\* (mutant) the prefixes are tried before the table of names
classify_tool_prefixFirst(tool_name, override_category, override_risk) ==
    LET cat  == IF Truthy(override_category) THEN override_category ELSE None
        risk == IF Truthy(override_risk) THEN override_risk ELSE None
        normalized == Normalize(tool_name)
        hits == { i \in 1..Len(_TOOL_PREFIXES) :
                    StartsWith(normalized, _TOOL_PREFIXES[i][1]) }
        first == CHOOSE i \in hits : \A j \in hits : i <= j
        auto == IF hits # {} THEN _TOOL_PREFIXES[first][2]
                ELSE IF InTable(normalized) THEN _TOOL_CLASSIFICATIONS[normalized.text]
                ELSE <<"data", "medium">>
    IN  IF cat # None /\ risk # None
        THEN <<cat, risk>>
        ELSE << IF cat # None THEN cat ELSE auto[1], IF risk # None THEN risk ELSE auto[2] >>

\* classify_tool(tool_name, override_category, override_risk), when it
\* does not raise
classify_tool(tool_name, override_category, override_risk) ==
    LET cat  == IF Truthy(override_category) THEN override_category ELSE None
        risk == IF Truthy(override_risk) THEN override_risk ELSE None
        normalized == Normalize(tool_name)
        hits == { i \in 1..Len(_TOOL_PREFIXES) :
                    StartsWith(normalized, _TOOL_PREFIXES[i][1]) }
        first == CHOOSE i \in hits : \A j \in hits : i <= j
        auto == IF InTable(normalized) THEN _TOOL_CLASSIFICATIONS[normalized.text]
                ELSE IF hits # {} THEN _TOOL_PREFIXES[first][2]
                ELSE <<"data", "medium">>
    IN  IF cat # None /\ risk # None
        THEN <<cat, risk>>
        ELSE << IF cat # None THEN cat ELSE auto[1], IF risk # None THEN risk ELSE auto[2] >>

\* (mutant) a response built without a proof gets one
ConsentResponse_proofByDefault(request_id, decision, approver_id, channel, reason, proof, modifications, auto_approved) ==
    [ request_id    |-> request_id,
      decision      |-> decision,
      approver_id   |-> approver_id,
      channel       |-> channel,
      reason        |-> reason,
      proof         |-> IF proof = <<>>
                        THEN << [ algorithm |-> "Ed25519", public_key |-> "",
                                  signature |-> "", signed_payload_hash |-> "" ] >>
                        ELSE proof,
      modifications |-> modifications,
      auto_approved |-> auto_approved ]

\* ConsentResponse(...): the dataclass with its defaults filled in by the caller
ConsentResponse(request_id, decision, approver_id, channel, reason, proof, modifications, auto_approved) ==
    [ request_id    |-> request_id,
      decision      |-> decision,
      approver_id   |-> approver_id,
      channel       |-> channel,
      reason        |-> reason,
      proof         |-> proof,
      modifications |-> modifications,
      auto_approved |-> auto_approved ]

\* (mutant) approved_with_modifications does not count as approved
approved_plainOnly(response) ==
    response.decision = "approved"

\* ConsentResponse.approved
approved(response) ==
    response.decision \in {"approved", "approved_with_modifications"}

\* (mutant) the decision of the payload is taken as it is
from_dict_raises_never(data) == FALSE

\* ConsentResponse.from_dict raises: ConsentDecision(...) rejects the value
from_dict_raises(data) == Get(data, "decision", "denied") \notin ConsentDecision

\* (mutant) a payload without a decision parses to approved
from_dict_failOpen(data) ==
    LET p == Get(data, "proof", <<>>)
        proof == IF p # <<>>
                 THEN << [ algorithm           |-> Get(p[1], "algorithm", "Ed25519"),
                           public_key          |-> Get(p[1], "public_key", ""),
                           signature           |-> Get(p[1], "signature", ""),
                           signed_payload_hash |-> Get(p[1], "signed_payload_hash", "") ] >>
                 ELSE <<>>
        approver == Get(data, "approver", <<>>)
    IN  ConsentResponse(
            Get(data, "request_id", [gen |-> "empty", n |-> 0]),
            Get(data, "decision", "approved"),
            IF approver = <<>> THEN "unknown" ELSE Get(approver[1], "id", "unknown"),
            IF approver = <<>> THEN "gateway" ELSE Get(approver[1], "channel", "gateway"),
            Get(data, "reason", None),
            proof,
            Get(data, "modifications", <<>>),
            FALSE)

\* ConsentResponse.from_dict
from_dict(data) ==
    LET p == Get(data, "proof", <<>>)
        proof == IF p # <<>>
                 THEN << [ algorithm           |-> Get(p[1], "algorithm", "Ed25519"),
                           public_key          |-> Get(p[1], "public_key", ""),
                           signature           |-> Get(p[1], "signature", ""),
                           signed_payload_hash |-> Get(p[1], "signed_payload_hash", "") ] >>
                 ELSE <<>>
        approver == Get(data, "approver", <<>>)
    IN  ConsentResponse(
            Get(data, "request_id", [gen |-> "empty", n |-> 0]),
            Get(data, "decision", "denied"),
            IF approver = <<>> THEN "unknown" ELSE Get(approver[1], "id", "unknown"),
            IF approver = <<>> THEN "gateway" ELSE Get(approver[1], "channel", "gateway"),
            Get(data, "reason", None),
            proof,
            Get(data, "modifications", <<>>),
            FALSE)

----------------------------------------------------------------------------
(* client.py: ACPClient.__init__ *)

\* values a caller gives for a URL or a token, and values the environment holds
StrInputs == {None, "", "set"}

EnvInputs == {None, "set"}

ModeInputs == {None, "", "local", "telegram", "gateway", "sms"}

Timeouts == {0, MaxTimeout}

InitParams ==
    [ mode                  : ModeInputs,
      gateway_url           : StrInputs,
      telegram_token        : StrInputs,
      on_consent            : {None, "handler"},
      auto_approve_low_risk : BOOLEAN,
      timeout_seconds       : Timeouts ]

\* (mutant) the token is looked at before the gateway URL
SelectMode_telegramFirst(mode, gateway_url, telegram_token) ==
    IF Truthy(mode) THEN mode
    ELSE IF Truthy(telegram_token) THEN "telegram"
    ELSE IF Truthy(gateway_url) THEN "gateway"
    ELSE "local"

\* self._mode as assigned by ACPClient.__init__
SelectMode(mode, gateway_url, telegram_token) ==
    IF Truthy(mode) THEN mode
    ELSE IF Truthy(gateway_url) THEN "gateway"
    ELSE IF Truthy(telegram_token) THEN "telegram"
    ELSE "local"

\* the fields of the client ACPClient(**p) leaves behind under environment e
ACPClient(p, e) ==
    LET gateway_url    == Or(p.gateway_url, e.ACP_GATEWAY_URL)
        telegram_token == Or(p.telegram_token, e.ACP_TELEGRAM_TOKEN)
    IN  [ gateway_url           |-> gateway_url,
          telegram_token        |-> telegram_token,
          on_consent            |-> p.on_consent,
          auto_approve_low_risk |-> p.auto_approve_low_risk,
          timeout_seconds       |-> p.timeout_seconds,
          _mode                 |-> SelectMode(p.mode, gateway_url, telegram_token) ]

\* the arguments _get_default_client passes: everything but the agent is defaulted
DefaultParams ==
    [ mode |-> None, gateway_url |-> None, telegram_token |-> None,
      on_consent |-> None, auto_approve_low_risk |-> FALSE,
      timeout_seconds |-> MaxTimeout ]

----------------------------------------------------------------------------
(* What the outside world can answer *)

\* the id ConsentRequest generates for the n-th request (cr_<hex>)
RequestId(n) == [gen |-> "sdk", n |-> n]

\* an id the SDK did not generate
ForeignId == [gen |-> "authority", n |-> 1]

\* JSON bodies the authority can send in reply to the submit, for request id rid
SubmitReplies(rid) ==
    LET ids == {rid, ForeignId} IN
      { [request_id |-> i] : i \in ids }
    \cup { [request_id |-> i, auto_approved |-> FALSE, auto_denied |-> FALSE] : i \in {rid} }
    \cup { [request_id |-> i, auto_approved |-> TRUE] : i \in ids }
    \cup { [request_id |-> i, auto_approved |-> TRUE, reason |-> "allowed by policy"] : i \in {rid} }
    \cup { [request_id |-> i, auto_denied |-> TRUE] : i \in {rid} }
    \cup { [request_id |-> i, auto_denied |-> TRUE, reason |-> "blocked by policy"] : i \in ids }
    \cup { [request_id |-> i, auto_approved |-> TRUE, auto_denied |-> TRUE,
            reason |-> "blocked by policy"] : i \in {rid} }
    \cup { [auto_approved |-> TRUE], [auto_denied |-> TRUE], [reason |-> "no id"] }

\* embedded response payloads of a status reply
ResponsePayloads(rid) ==
    { [ request_id |-> rid, decision |-> "approved",
        approver |-> << [id |-> "alice", channel |-> "dashboard"] >>,
        reason |-> "looks fine",
        proof |-> << [ algorithm |-> "Ed25519", public_key |-> "k1",
                       signature |-> "s1", signed_payload_hash |-> "h1" ] >> ],
      [ request_id |-> rid, decision |-> "approved_with_modifications",
        approver |-> << [id |-> "alice"] >>,
        modifications |-> << [amount |-> "10"] >> ],
      [ request_id |-> rid, decision |-> "denied", reason |-> "not now" ],
      [ request_id |-> ForeignId, decision |-> "expired" ],
      [ reason |-> "no decision" ],
      [ request_id |-> rid, decision |-> "escalated" ] }

Statuses == {"pending", "approved", "denied", "expired", "escalated", "deferred"}

\* JSON bodies the authority can send in reply to a status query: the status may
\* be missing, the response may be missing or empty (<<>> is the empty dict)
StatusReplies(rid) ==
    LET P == [ d \in {"approved", "approved_with_modifications", "denied", "expired",
                      "none", "escalated"} |->
               CHOOSE r \in ResponsePayloads(rid) : Get(r, "decision", "none") = d ]
    IN
       { [status |-> s] : s \in Statuses }
  \cup { [nothing |-> TRUE] }
  \cup { [status |-> s, response |-> <<>>] : s \in {"approved", "denied"} }
  \cup { [status |-> "approved", response |-> << P["approved"] >>],
         [status |-> "approved", response |-> << P["approved_with_modifications"] >>],
         [status |-> "approved", response |-> << P["none"] >>],
         [status |-> "approved", response |-> << P["escalated"] >>],
         [status |-> "denied",   response |-> << P["denied"] >>],
         [status |-> "denied",   response |-> << P["approved"] >>],
         [status |-> "expired",  response |-> << P["expired"] >>],
         [status |-> "pending",  response |-> << P["approved"] >>],
         \* a human's denial relayed without an approver block, whose reason
         \* the human worded as the policy words its own
         [status |-> "denied",
          response |-> << [request_id |-> rid, decision |-> "denied",
                           reason |-> "blocked by policy"] >>] }

----------------------------------------------------------------------------
(* client.py: ACPClient._request_gateway, the parts without side effects *)

\* the reason f"Status: {status}"
StatusReason(status) ==
    CASE status = "approved" -> "Status: approved"
      [] status = "denied"   -> "Status: denied"
      [] status = "expired"  -> "Status: expired"

\* (mutant) the response of an auto-approval without its auto_approved marker
AutoApprovedResponse_noMarker(data) ==
    ConsentResponse(data.request_id, "approved", "policy_auto", "gateway",
                    Get(data, "reason", "Auto-approved by policy"), <<>>, <<>>, FALSE)

\* the response returned when the submit reply has auto_approved
AutoApprovedResponse(data) ==
    ConsentResponse(data.request_id, "approved", "policy_auto", "gateway",
                    Get(data, "reason", "Auto-approved by policy"), <<>>, <<>>, TRUE)

\* (mutant) the response of an auto-denial with the reason of the reply dropped
AutoDeniedResponse_defaultReason(data) ==
    ConsentResponse(data.request_id, "denied", "policy_auto", "gateway",
                    "Auto-denied by policy", <<>>, <<>>, FALSE)

\* the response returned when the submit reply has auto_denied
AutoDeniedResponse(data) ==
    ConsentResponse(data.request_id, "denied", "policy_auto", "gateway",
                    Get(data, "reason", "Auto-denied by policy"), <<>>, <<>>, FALSE)

\* what the session does with the JSON body of the submit reply:
\* return a response, raise, or start polling under request_id
SubmitOutcome(data) ==
    IF "request_id" \notin DOMAIN data
    THEN \* data["request_id"] is read on all three paths
         [kind |-> "raise", error |-> "KeyError"]
    ELSE IF Get(data, "auto_approved", FALSE)
    THEN [kind |-> "return", response |-> AutoApprovedResponse(data)]
    ELSE IF Get(data, "auto_denied", FALSE)
    THEN [kind |-> "return", response |-> AutoDeniedResponse(data)]
    ELSE [kind |-> "poll", request_id |-> data.request_id]

\* (mutant) a status the loop does not know ends the session with a denial
PollOutcome_unknownDenies(status_data, request_id) ==
    LET status == Get(status_data, "status", None)
        response_data == Get(status_data, "response", <<>>)
    IN  IF status = "pending"
        THEN [kind |-> "continue"]
        ELSE IF status \in {"approved", "denied", "expired"}
        THEN IF response_data # <<>>
             THEN IF from_dict_raises(response_data[1])
                  THEN [kind |-> "raise", error |-> "ValueError"]
                  ELSE [kind |-> "return", response |-> from_dict(response_data[1])]
             ELSE [kind |-> "return",
                   response |-> ConsentResponse(request_id,
                                    IF status = "approved" THEN "approved" ELSE "denied",
                                    "unknown", "gateway", StatusReason(status),
                                    <<>>, <<>>, FALSE)]
        ELSE [kind |-> "return",
              response |-> ConsentResponse(request_id, "denied", "unknown", "gateway",
                                           "Status: unknown", <<>>, <<>>, FALSE)]

\* what one iteration of the poll loop does with the JSON body of a status reply
PollOutcome(status_data, request_id) ==
    LET status == Get(status_data, "status", None)
        response_data == Get(status_data, "response", <<>>)
    IN  IF status = "pending"
        THEN [kind |-> "continue"]
        ELSE IF status \in {"approved", "denied", "expired"}
        THEN IF response_data # <<>>
             THEN IF from_dict_raises(response_data[1])
                  THEN [kind |-> "raise", error |-> "ValueError"]
                  ELSE [kind |-> "return", response |-> from_dict(response_data[1])]
             ELSE [kind |-> "return",
                   response |-> ConsentResponse(request_id,
                                    IF status = "approved" THEN "approved" ELSE "denied",
                                    "unknown", "gateway", StatusReason(status),
                                    <<>>, <<>>, FALSE)]
        ELSE [kind |-> "continue"]

\* (mutant) a session nobody answered counts as approved
TimeoutResponse_failOpen(request_id) ==
    ConsentResponse(request_id, "approved", "system_timeout", "gateway",
                    "Request timed out", <<>>, <<>>, FALSE)

\* the response built after the loop
TimeoutResponse(request_id) ==
    ConsentResponse(request_id, "denied", "system_timeout", "gateway",
                    "Request timed out", <<>>, <<>>, FALSE)

\* (mutant) the loop gives up one sleep before the deadline
LoopCondition_early(t, start, timeout_seconds) == t - start < timeout_seconds - POLL_SLEEP

\* while time.time() - start < self.timeout_seconds
LoopCondition(t, start, timeout_seconds) == t - start < timeout_seconds

----------------------------------------------------------------------------
(* The process *)

NoException == [type |-> None, response |-> <<>>]

Exception(type) == [type |-> type, response |-> <<>>]

NoSession ==
    [ request_id |-> RequestId(0), start |-> 0, submits |-> 0, polls |-> 0,
      data |-> <<>>, seen |-> {}, status |-> None, reply |-> <<>> ]

\* positions from which the program can start a call; "constructed" is the
\* position right after ACPClient(...), with the arguments still at hand
Idle == {"start", "constructed", "idle"}

NoCall == [kind |-> "none"]

\* no plain prompt is open
NoPrompt == [pc |-> "idle", reads |-> 0, line |-> <<>>, ret |-> <<>>]

Init ==
    /\ env \in [ACP_GATEWAY_URL : EnvInputs, ACP_TELEGRAM_TOKEN : EnvInputs]
    /\ client = <<>>
    /\ _default_client = <<>>
    /\ pc = "start"
    /\ calls = 0
    /\ call = NoCall
    /\ now = 0
    /\ sess = NoSession
    /\ ret = <<>>
    /\ exc = NoException
    /\ body_runs = 0
    /\ responses = 0
    /\ channels = {}
    /\ issued = <<>>
    /\ presented = <<>>
    /\ last = <<>>
    /\ accepted = {}
    /\ classified = <<>>
    /\ sessions = [s \in {"A", "B"} |->
                     [ pc |-> "idle", timeout_seconds |-> 0, elapsed |-> 0,
                       last_update_id |-> 0, ret |-> <<>>, exc |-> None ]]
    /\ bot = [queue |-> <<>>, confirmed |-> 0, received |-> 0]
    /\ canonicalized = <<>>
    /\ terminal = NoPrompt

\* the client the call in progress runs on
Self == IF call.use = "default" THEN _default_client[1] ELSE client[1]

\* (mutant) a response is handed over while the poll loop goes on
Apply_keepsPolling(o, wrapped, prior) ==
    CASE o.kind = "return" ->
           /\ ret' = << o.response >>
           /\ responses' = prior + 1
           /\ exc' = NoException
           /\ pc' = IF pc = "polling" /\ o.response.approver_id # "system_timeout"
                    THEN "polling"
                    ELSE IF wrapped THEN "check" ELSE "done"
      [] o.kind = "raise" ->
           /\ exc' = Exception(o.error)
           /\ ret' = <<>>
           /\ responses' = prior
           /\ pc' = "done"
      [] o.kind = "goto" ->
           /\ pc' = o.to
           /\ ret' = ret
           /\ responses' = prior
           /\ exc' = NoException

\* A step of a call ends in one of three ways: request_consent returns a
\* response, an exception leaves it (and the wrapper, if there is one), or the
\* process moves on to position o.to.  prior is the number of responses the
\* call has produced before the step.
Apply(o, wrapped, prior) ==
    CASE o.kind = "return" ->
           /\ ret' = << o.response >>
           /\ responses' = prior + 1
           /\ exc' = NoException
           /\ pc' = IF wrapped THEN "check" ELSE "done"
      [] o.kind = "raise" ->
           /\ exc' = Exception(o.error)
           /\ ret' = <<>>
           /\ responses' = prior
           /\ pc' = "done"
      [] o.kind = "goto" ->
           /\ pc' = o.to
           /\ ret' = <<>>
           /\ responses' = prior
           /\ exc' = NoException

\* client = ACPClient(**p)
ACPClient_init ==
    /\ pc = "start"
    /\ \E p \in InitParams :
         /\ client' = << ACPClient(p, env) >>
         /\ call' = [kind |-> "init", params |-> p]
    /\ pc' = "constructed"
    /\ UNCHANGED <<env, _default_client, calls, now, sess, ret, exc, body_runs, responses,
                   channels>>
    /\ UNCHANGED <<verification, classified, telegram, canonicalized, terminal>>

\* (mutant) the custom handler is consulted only when no remote mode is selected
Dispatch_modeFirst(self, request_id, tool, category, risk_level) ==
    LET auto == classify_tool(tool, None, None)
        cat  == IF Truthy(category) THEN category ELSE auto[1]
        risk == IF Truthy(risk_level) THEN risk_level ELSE auto[2]
    IN  IF cat \notin ActionCategory \/ risk \notin RiskLevel
        THEN [kind |-> "raise", error |-> "ValueError"]
        ELSE IF self.auto_approve_low_risk /\ risk = "low"
        THEN [kind |-> "return",
              response |-> ConsentResponse(request_id, "approved", "policy_auto", "auto",
                               "Auto-approved: low risk action", <<>>, <<>>, TRUE)]
        ELSE IF self._mode = "gateway"  THEN [kind |-> "goto", to |-> "gateway"]
        ELSE IF self._mode = "telegram" THEN [kind |-> "goto", to |-> "telegram"]
        ELSE IF Truthy(self.on_consent) THEN [kind |-> "goto", to |-> "on_consent"]
        ELSE [kind |-> "goto", to |-> "local"]

\* (mutant) the shortcut is also taken for medium risk
Dispatch_mediumToo(self, request_id, tool, category, risk_level) ==
    LET auto == classify_tool(tool, None, None)
        cat  == IF Truthy(category) THEN category ELSE auto[1]
        risk == IF Truthy(risk_level) THEN risk_level ELSE auto[2]
    IN  IF cat \notin ActionCategory \/ risk \notin RiskLevel
        THEN [kind |-> "raise", error |-> "ValueError"]
        ELSE IF self.auto_approve_low_risk /\ risk \in {"low", "medium"}
        THEN [kind |-> "return",
              response |-> ConsentResponse(request_id, "approved", "policy_auto", "auto",
                               "Auto-approved: low risk action", <<>>, <<>>, TRUE)]
        ELSE IF Truthy(self.on_consent) THEN [kind |-> "goto", to |-> "on_consent"]
        ELSE IF self._mode = "gateway"  THEN [kind |-> "goto", to |-> "gateway"]
        ELSE IF self._mode = "telegram" THEN [kind |-> "goto", to |-> "telegram"]
        ELSE [kind |-> "goto", to |-> "local"]

\* request_consent up to the dispatch (the arguments that do not reach a
\* decision are left out): classify, build the request, take the low-risk
\* shortcut, or pick the handler
Dispatch(self, request_id, tool, category, risk_level) ==
    LET auto == classify_tool(tool, None, None)
        cat  == IF Truthy(category) THEN category ELSE auto[1]
        risk == IF Truthy(risk_level) THEN risk_level ELSE auto[2]
    IN  IF cat \notin ActionCategory \/ risk \notin RiskLevel
        THEN [kind |-> "raise", error |-> "ValueError"]
        ELSE IF self.auto_approve_low_risk /\ risk = "low"
        THEN [kind |-> "return",
              response |-> ConsentResponse(request_id, "approved", "policy_auto", "auto",
                               "Auto-approved: low risk action", <<>>, <<>>, TRUE)]
        ELSE IF Truthy(self.on_consent) THEN [kind |-> "goto", to |-> "on_consent"]
        ELSE IF self._mode = "gateway"  THEN [kind |-> "goto", to |-> "gateway"]
        ELSE IF self._mode = "telegram" THEN [kind |-> "goto", to |-> "telegram"]
        ELSE [kind |-> "goto", to |-> "local"]

\* the risk level request_consent works with: the caller's if it gave one,
\* else the classifier's
EffectiveRisk(tool, risk_level) ==
    IF Truthy(risk_level) THEN risk_level ELSE classify_tool(tool, None, None)[2]

\* if self.auto_approve_low_risk and risk_level == "low"
LowRisk(self, tool, risk_level) ==
    self.auto_approve_low_risk /\ EffectiveRisk(tool, risk_level) = "low"

\* request = ConsentRequest(action=action, agent=agent, context=req_context):
\* built on every path of request_consent except the one on which
\* ActionCategory(category) or RiskLevel(risk_level) raises before it
RequestBuilt(o, request_id) ==
    IF o.kind = "raise" THEN <<>> ELSE << [id |-> request_id] >>

\* (mutant) the mode is selected again on every request, without the mode
\* the constructor was given
SelfAfterRequest_reselect(self) ==
    [self EXCEPT !._mode = SelectMode(None, self.gateway_url, self.telegram_token)]

\* request_consent assigns no attribute of self: the client after a call
SelfAfterRequest(self) == self

CategoryInputs == {None, "financial", "finance"}

RiskInputs == {None, "", "low", "critical", "severe"}

\* the program calls client.request_consent(tool, ..., category, risk_level)
request_consent ==
    /\ pc \in Idle
    /\ client # <<>>
    /\ calls < MaxCalls
    /\ \E tool \in ToolInputs, category \in CategoryInputs, risk_level \in RiskInputs :
         LET o == Dispatch(client[1], RequestId(calls + 1), tool, category, risk_level)
         IN  /\ Apply(o, FALSE, 0)
             /\ channels' = IF o.kind = "return" THEN {"policy_auto"} ELSE {}
             /\ call' = [kind |-> "call", use |-> "client", wrapped |-> FALSE,
                         is_async |-> FALSE, request_id |-> RequestId(calls + 1),
                         request |-> RequestBuilt(o, RequestId(calls + 1)),
                         low_risk |-> LowRisk(client[1], tool, risk_level)]
    /\ client' = << SelfAfterRequest(client[1]) >>
    /\ calls' = calls + 1
    /\ now' = 0
    /\ sess' = NoSession
    /\ body_runs' = 0
    /\ UNCHANGED <<env, _default_client>>
    /\ UNCHANGED <<verification, classified, telegram, canonicalized, terminal>>

\* decorators._get_default_client
_get_default_client ==
    IF _default_client = <<>> THEN << ACPClient(DefaultParams, env) >> ELSE _default_client

\* the risk_level a decorator was given, after str(); "medium" is the default
DecoratorRisks == {"low", "medium", "high", "severe"}

\* the program calls a function wrapped by @requires_consent(risk_level, category):
\* the wrapper runs _check_consent up to the dispatch
wrapper(is_async) ==
    /\ pc \in Idle
    /\ client = <<>>
    /\ calls < MaxCalls
    /\ _default_client' = << SelfAfterRequest(_get_default_client[1]) >>
    /\ \E func \in ToolInputs, category \in CategoryInputs, risk_level \in DecoratorRisks :
         LET o == Dispatch(_get_default_client[1], RequestId(calls + 1), func, category,
                           risk_level)
         IN  /\ Apply(o, TRUE, 0)
             /\ channels' = IF o.kind = "return" THEN {"policy_auto"} ELSE {}
             /\ call' = [kind |-> "call", use |-> "default", wrapped |-> TRUE,
                         is_async |-> is_async, request_id |-> RequestId(calls + 1),
                         request |-> RequestBuilt(o, RequestId(calls + 1)),
                         low_risk |-> LowRisk(_get_default_client[1], func, risk_level)]
    /\ calls' = calls + 1
    /\ now' = 0
    /\ sess' = NoSession
    /\ body_runs' = 0
    /\ UNCHANGED <<env, client>>
    /\ UNCHANGED <<verification, classified, telegram, canonicalized, terminal>>

sync_wrapper == wrapper(FALSE)

async_wrapper == wrapper(TRUE)

\* (mutant) only a plain denial stops the wrapped body
_check_consent_onlyDenied ==
    /\ pc = "check"
    /\ IF ret[1].decision = "denied"
       THEN /\ exc' = [type |-> "ConsentDeniedError", response |-> ret]
            /\ UNCHANGED body_runs
       ELSE /\ body_runs' = body_runs + 1
            /\ UNCHANGED exc
    /\ pc' = "done"
    /\ UNCHANGED <<env, client, _default_client, calls, call, now, sess, ret, responses,
                   channels>>
    /\ UNCHANGED <<verification, classified, telegram, canonicalized, terminal>>

\* _check_consent after request_consent returned, then the wrapped body
_check_consent ==
    /\ pc = "check"
    /\ IF ~approved(ret[1])
       THEN /\ exc' = [type |-> "ConsentDeniedError", response |-> ret]
            /\ UNCHANGED body_runs
       ELSE /\ body_runs' = body_runs + 1
            /\ UNCHANGED exc
    /\ pc' = "done"
    /\ UNCHANGED <<env, client, _default_client, calls, call, now, sess, ret, responses,
                   channels>>
    /\ UNCHANGED <<verification, classified, telegram, canonicalized, terminal>>

\* responses a custom on_consent handler can hand back
HandlerResponses(rid) ==
    { ConsentResponse(i, d, "custom", "custom", None, <<>>, <<>>, FALSE) :
        i \in {rid, ForeignId}, d \in {"approved", "denied"} }

\* return self.on_consent(request)
on_consent ==
    /\ pc = "on_consent"
    /\ \/ \E r \in HandlerResponses(call.request_id) :
            Apply([kind |-> "return", response |-> r], call.wrapped, responses)
       \/ Apply([kind |-> "raise", error |-> "HandlerError"], call.wrapped, responses)
    /\ channels' = channels \cup {"on_consent"}
    /\ UNCHANGED <<env, client, _default_client, calls, call, now, sess, body_runs>>
    /\ UNCHANGED <<verification, classified, telegram, canonicalized, terminal>>

\* time an HTTP call takes
Latencies == 0..MaxLatency

\* ways an HTTP call fails: no connection, or a status raise_for_status rejects
Failures == {"connection", "HTTP 403", "HTTP 500"}

\* (mutant) a failed submit is turned into a denial
SubmitFailure_deny(f) ==
    [kind |-> "return",
     response |-> ConsentResponse(RequestId(0), "denied", "unknown", "gateway",
                                  "Gateway unreachable", <<>>, <<>>, FALSE)]

\* a failed http.post or resp.raise_for_status() in the submit
SubmitFailure(f) ==
    [kind |-> "raise", error |-> IF f = "connection" THEN "ConnectionError" ELSE "HTTPError"]

\* a failed http.get or poll.raise_for_status() in the poll loop
PollFailure(f) ==
    [kind |-> "raise", error |-> IF f = "connection" THEN "ConnectionError" ELSE "HTTPError"]

\* _request_gateway up to the poll loop: the submit, which takes some time, and
\* its reply; start = time.time() is read when the reply is in
GatewaySubmit ==
    /\ pc = "gateway"
    /\ \/ \* self.gateway_url is None: self.gateway_url.rstrip fails
          /\ ~Truthy(Self.gateway_url)
          /\ Apply([kind |-> "raise", error |-> "AttributeError"], call.wrapped, responses)
          /\ UNCHANGED <<sess, now>>
       \/ \* http.post or raise_for_status raises
          /\ Truthy(Self.gateway_url)
          /\ \E f \in Failures :
               /\ Apply(SubmitFailure(f), call.wrapped, responses)
               /\ sess' = [sess EXCEPT !.submits = @ + 1, !.seen = @ \cup {"submit failed"},
                                       !.status = f]
          /\ UNCHANGED now
       \/ \* the authority replies with a JSON body
          /\ Truthy(Self.gateway_url)
          /\ \E data \in SubmitReplies(call.request_id), d \in Latencies :
               LET o == SubmitOutcome(data) IN
               /\ IF o.kind = "poll"
                  THEN /\ Apply([kind |-> "goto", to |-> "polling"], call.wrapped, responses)
                       /\ now' = now + d
                  ELSE /\ Apply(o, call.wrapped, responses)
                       /\ now' = now
               /\ sess' = [sess EXCEPT
                             !.submits = @ + 1,
                             !.data = << data >>,
                             !.request_id = IF o.kind = "poll" THEN o.request_id ELSE @,
                             !.start = IF o.kind = "poll" THEN now' ELSE @]
    /\ channels' = channels \cup {"gateway"}
    /\ UNCHANGED <<env, client, _default_client, calls, call, body_runs>>
    /\ UNCHANGED <<verification, classified, telegram, canonicalized, terminal>>

\* time one iteration of the loop takes: time.sleep(2), then the status query
IterationTimes == { POLL_SLEEP + d : d \in Latencies }

\* one iteration of the poll loop
GatewayPoll ==
    /\ pc = "polling"
    /\ LoopCondition(now, sess.start, Self.timeout_seconds)
    /\ \E dt \in IterationTimes :
         /\ now' = now + dt
         /\ \/ \* http.get or raise_for_status raises
               /\ \E f \in Failures :
                    /\ Apply(PollFailure(f), call.wrapped, responses)
                    /\ sess' = [sess EXCEPT !.polls = @ + 1,
                                            !.seen = @ \cup {"poll failed"},
                                            !.status = f, !.reply = <<>>]
            \/ \E status_data \in StatusReplies(call.request_id) :
                 LET o == PollOutcome(status_data, sess.request_id)
                     status == Get(status_data, "status", None)
                 IN
                 /\ IF o.kind = "continue"
                    THEN Apply([kind |-> "goto", to |-> "polling"],
                               call.wrapped, responses)
                    ELSE Apply(o, call.wrapped, responses)
                 /\ sess' = [sess EXCEPT !.polls = @ + 1, !.seen = @ \cup {status},
                                         !.status = status,
                                         !.reply = << status_data >>]
    /\ UNCHANGED <<env, client, _default_client, calls, call, body_runs, channels>>
    /\ UNCHANGED <<verification, classified, telegram, canonicalized, terminal>>

\* the loop ends without a decision
GatewayTimeout ==
    /\ pc = "polling"
    /\ ~LoopCondition(now, sess.start, Self.timeout_seconds)
    /\ Apply([kind |-> "return", response |-> TimeoutResponse(sess.request_id)],
             call.wrapped, responses)
    /\ UNCHANGED <<env, client, _default_client, calls, call, now, sess, body_runs,
                   channels>>
    /\ UNCHANGED <<verification, classified, telegram, canonicalized, terminal>>

\* telegram_handler.prompt_telegram, by its outcomes: a missing token or chat
\* id, a failed sendMessage, a callback for this request, or the timeout
prompt_telegram ==
    /\ pc = "telegram"
    /\ \/ /\ ~Truthy(Or(Self.telegram_token, env.ACP_TELEGRAM_TOKEN))
          /\ Apply([kind |-> "raise", error |-> "ValueError"], call.wrapped, responses)
       \/ /\ Truthy(Or(Self.telegram_token, env.ACP_TELEGRAM_TOKEN))
          /\ \E e \in {"ValueError", "RequestException"} :
               Apply([kind |-> "raise", error |-> e], call.wrapped, responses)
       \/ /\ Truthy(Or(Self.telegram_token, env.ACP_TELEGRAM_TOKEN))
          /\ \E decision \in {"approved", "denied"} :
               Apply([kind |-> "return",
                      response |-> ConsentResponse(call.request_id, decision, "tg_user",
                                       "telegram", None, <<>>, <<>>, FALSE)],
                     call.wrapped, responses)
       \/ /\ Truthy(Or(Self.telegram_token, env.ACP_TELEGRAM_TOKEN))
          /\ Apply([kind |-> "return",
                    response |-> ConsentResponse(call.request_id, "denied",
                                     "system_timeout", "telegram", "Request timed out",
                                     <<>>, <<>>, FALSE)],
                   call.wrapped, responses)
    /\ channels' = channels \cup {"telegram"}
    /\ UNCHANGED <<env, client, _default_client, calls, call, now, sess, body_runs>>
    /\ UNCHANGED <<verification, classified, telegram, canonicalized, terminal>>

\* lines a human can type at the plain prompt, after strip().lower(); "EOF" is
\* end of input or an interrupt
Answers == {"a", "approve", "y", "yes", "d", "deny", "n", "no", "maybe", "", "EOF"}

\* local.prompt_local: the rich prompt (a yes/no confirmation) when it is
\* available, else one round of the plain prompt's loop
prompt_local ==
    /\ pc = "local"
    /\ \/ \E yes \in BOOLEAN :
            Apply([kind |-> "return",
                   response |-> ConsentResponse(call.request_id,
                                    IF yes THEN "approved" ELSE "denied",
                                    "local_user", "terminal_rich", None, <<>>, <<>>, FALSE)],
                  call.wrapped, responses)
       \/ \E line \in Answers :
            LET answer == IF line = "EOF" THEN "d" ELSE line IN
            IF answer \in {"a", "approve", "y", "yes"}
            THEN Apply([kind |-> "return",
                        response |-> ConsentResponse(call.request_id, "approved",
                                         "local_user", "terminal", None, <<>>, <<>>, FALSE)],
                       call.wrapped, responses)
            ELSE IF answer \in {"d", "deny", "n", "no"}
            THEN Apply([kind |-> "return",
                        response |-> ConsentResponse(call.request_id, "denied",
                                         "local_user", "terminal", None, <<>>, <<>>, FALSE)],
                       call.wrapped, responses)
            ELSE Apply([kind |-> "goto", to |-> "local"], call.wrapped, responses)
    /\ channels' = channels \cup {"local"}
    /\ UNCHANGED <<env, client, _default_client, calls, call, now, sess, body_runs>>
    /\ UNCHANGED <<verification, classified, telegram, canonicalized, terminal>>

\* the caller has the outcome of the call and goes on: the frames of the call
\* are gone
caller_continues ==
    /\ pc = "done"
    /\ pc' = "idle"
    /\ call' = NoCall
    /\ now' = 0
    /\ sess' = NoSession
    /\ ret' = <<>>
    /\ exc' = NoException
    /\ body_runs' = 0
    /\ responses' = 0
    /\ channels' = {}
    /\ UNCHANGED <<env, client, _default_client, calls>>
    /\ UNCHANGED <<verification, classified, telegram, canonicalized, terminal>>

\* between calls the program changes os.environ
setenv ==
    /\ pc \in Idle
    /\ env' \in [ACP_GATEWAY_URL : EnvInputs, ACP_TELEGRAM_TOKEN : EnvInputs]
    /\ env' # env
    /\ pc' = IF pc = "constructed" THEN "idle" ELSE pc
    /\ call' = NoCall
    /\ UNCHANGED <<client, _default_client, calls, now, sess, ret, exc, body_runs,
                   responses, channels>>
    /\ UNCHANGED <<verification, classified, telegram, canonicalized, terminal>>

Next ==
    \/ setenv
    \/ ACPClient_init
    \/ request_consent
    \/ sync_wrapper
    \/ async_wrapper
    \/ caller_continues
    \/ _check_consent
    \/ on_consent
    \/ GatewaySubmit
    \/ GatewayPoll
    \/ GatewayTimeout
    \/ prompt_telegram
    \/ prompt_local

Spec == Init /\ [][Next]_vars

\* The poll loop is ordinary sequential code, and every HTTP call in it carries
\* timeout=30: an iteration that can run does run.
FairSpec == Spec /\ WF_vars(GatewayPoll \/ GatewayTimeout)

----------------------------------------------------------------------------
(* crypto.py *)

\* Python values: a string is [s |-> "..."], a request id [id |-> ...], None is
\* [null |-> TRUE], a dict is [d |-> <<key, value>> pairs in insertion order],
\* a list is [l |-> values], a tuple is [tuple |-> values]
Str(x) == [s |-> x]

JNull == [null |-> TRUE]

\* the keys that occur in the mappings of the model, in lexicographic order
KeyOrder ==
    << "action_hash", "amount", "decision", "modifications_hash", "nonce",
       "request_id", "timestamp", "to", "valid_until" >>

\* the place of key k in the order of str
KeyRank(k) == CHOOSE i \in 1..Len(KeyOrder) : KeyOrder[i] = k

\* sorted(obj.items()): the keys of a dict are distinct
SortedItems(items) ==
    LET n == Len(items)
        rank(j) == Cardinality({ k \in 1..n : KeyRank(items[k][1]) < KeyRank(items[j][1]) })
    IN  [ i \in 1..n |-> items[CHOOSE j \in 1..n : rank(j) = i - 1] ]

RECURSIVE _sort_keys(_)
\* _sort_keys: dicts rebuilt with their keys sorted, all the way down
_sort_keys(obj) ==
    IF "d" \in DOMAIN obj
    THEN LET sorted == SortedItems(obj.d)
         IN  [ d |-> [ i \in 1..Len(sorted) |->
                         << sorted[i][1], _sort_keys(sorted[i][2]) >> ] ]
    ELSE IF "l" \in DOMAIN obj
    THEN [ l |-> [ i \in 1..Len(obj.l) |-> _sort_keys(obj.l[i]) ] ]
    ELSE obj

\* the punctuation of a JSON text; a text is the sequence of its tokens
LBrace == [tok |-> "{"]
RBrace == [tok |-> "}"]
LBracket == [tok |-> "["]
RBracket == [tok |-> "]"]
Comma == [tok |-> ","]
Colon == [tok |-> ":"]

RECURSIVE dumps(_), dumps_members(_, _), dumps_elements(_, _)
\* json.dumps(obj, separators=(",", ":")): a dict is written with its keys in
\* the order the dict holds them, a list and a tuple both as an array
dumps(obj) ==
    IF "d" \in DOMAIN obj
    THEN <<LBrace>> \o dumps_members(obj.d, TRUE) \o <<RBrace>>
    ELSE IF "l" \in DOMAIN obj
    THEN <<LBracket>> \o dumps_elements(obj.l, TRUE) \o <<RBracket>>
    ELSE IF "tuple" \in DOMAIN obj
    THEN <<LBracket>> \o dumps_elements(obj.tuple, TRUE) \o <<RBracket>>
    ELSE <<obj>>

\* the members of an object, "key":value, with a comma before all but the first
dumps_members(items, first) ==
    IF items = <<>> THEN <<>>
    ELSE (IF first THEN <<>> ELSE <<Comma>>)
         \o << [key |-> Head(items)[1]], Colon >> \o dumps(Head(items)[2])
         \o dumps_members(Tail(items), FALSE)

\* the elements of an array, with a comma before all but the first
dumps_elements(values, first) ==
    IF values = <<>> THEN <<>>
    ELSE (IF first THEN <<>> ELSE <<Comma>>)
         \o dumps(Head(values)) \o dumps_elements(Tail(values), FALSE)

RECURSIVE parse(_, _), parse_members(_, _, _), parse_elements(_, _, _)
\* the JSON value that starts at token i of a text, and the place after it:
\* an object becomes a dict whose keys are in the order of the text, an array
\* becomes a list
parse(text, i) ==
    IF text[i] = LBrace THEN parse_members(text, i + 1, <<>>)
    ELSE IF text[i] = LBracket THEN parse_elements(text, i + 1, <<>>)
    ELSE [value |-> text[i], next |-> i + 1]

\* the rest of an object from token j on, acc being the items read so far
parse_members(text, j, acc) ==
    IF text[j] = RBrace THEN [value |-> [d |-> acc], next |-> j + 1]
    ELSE LET k == IF text[j] = Comma THEN j + 1 ELSE j
             v == parse(text, k + 2)
         IN  parse_members(text, v.next, Append(acc, << text[k].key, v.value >>))

\* the rest of an array from token j on, acc being the values read so far
parse_elements(text, j, acc) ==
    IF text[j] = RBracket THEN [value |-> [l |-> acc], next |-> j + 1]
    ELSE LET k == IF text[j] = Comma THEN j + 1 ELSE j
             v == parse(text, k)
         IN  parse_elements(text, v.next, Append(acc, v.value))

\* json.loads(text)
loads(text) == parse(text, 1).value

\* canonical_json
canonical_json(obj) == dumps(_sort_keys(obj))

\* sha256_hash: "sha256:" + the digest of the text (no two texts of the model
\* share a digest)
sha256_hash(data) == [sha256 |-> data]

\* compute_payload_hash; modifications is <<>> for None
compute_payload_hash(request_id, decision, nonce, timestamp, action_params, modifications, valid_until) ==
    LET action_hash == sha256_hash(canonical_json(action_params))
        modifications_hash ==
            IF modifications # <<>> /\ modifications[1].d # <<>>
            THEN sha256_hash(canonical_json(modifications[1]))
            ELSE JNull
        payload ==
            [ d |-> << <<"request_id", [id |-> request_id]>>,
                       <<"decision", Str(decision)>>,
                       <<"nonce", Str(nonce)>>,
                       <<"timestamp", Str(timestamp)>>,
                       <<"action_hash", action_hash>>,
                       <<"modifications_hash", modifications_hash>>,
                       <<"valid_until", Str(valid_until)>> >> ]
    IN  sha256_hash(canonical_json(payload))

\* what a verification hands back, (is_valid, error), with two locals of
\* verify_proof_hash kept for inspection: <<>> when they were not computed
Verdict(is_valid, error, valid_until, expected) ==
    [ result |-> <<is_valid, error>>, valid_until |-> valid_until, expected |-> expected ]

\* verify_proof_hash at clock reading t.  A ConsentResponse as the dataclass
\* defines it has no attribute timestamp: reading it raises inside the try.
verify_proof_hash(proof, response, original_request, t) ==
    IF response.request_id # original_request.id
    THEN Verdict(FALSE, "Request ID mismatch", <<>>, <<>>)
    ELSE LET valid_until == t IN
         IF "timestamp" \notin DOMAIN response
         THEN Verdict(FALSE, "Hash computation failed", << valid_until >>, <<>>)
         ELSE LET expected ==
                      compute_payload_hash(response.request_id, response.decision,
                          original_request.nonce, response.timestamp,
                          original_request.action.parameters, response.modifications,
                          valid_until)
              IN  Verdict(TRUE, None, << valid_until >>, << expected >>)

\* public keys a proof can name, by what bytes.fromhex and load_der_public_key
\* make of them
KeyMaterial ==
    [ K1 |-> "Ed25519", K2 |-> "Ed25519", KRSA |-> "RSA", KBAD |-> "malformed" ]

\* verify_proof at clock reading t; library says whether the import of
\* cryptography succeeds, trusted_public_keys is <<>> for None or []
verify_proof(proof, response, original_request, trusted_public_keys, library, t) ==
    IF ~library
    THEN verify_proof_hash(proof, response, original_request, t)
    ELSE IF trusted_public_keys # <<>>
            /\ \A i \in 1..Len(trusted_public_keys) : trusted_public_keys[i] # proof.public_key
    THEN Verdict(FALSE, "Unknown or untrusted public key", <<>>, <<>>)
    ELSE IF proof.signed_payload_hash = Str("")
    THEN Verdict(FALSE, "No payload hash in proof", <<>>, <<>>)
    ELSE IF KeyMaterial[proof.public_key] = "malformed"
    THEN Verdict(FALSE, "Signature verification failed", <<>>, <<>>)
    ELSE IF KeyMaterial[proof.public_key] # "Ed25519"
    THEN Verdict(FALSE, "Key is not Ed25519", <<>>, <<>>)
    ELSE IF ~proof.signature.hex
    THEN Verdict(FALSE, "Signature verification failed", <<>>, <<>>)
    ELSE Verdict(TRUE, None, <<>>, <<>>)

\* ConsentRequest, the fields a verification reads
ConsentRequest(id, nonce, parameters) ==
    [ id |-> id, nonce |-> nonce, action |-> [parameters |-> parameters] ]

\* datetime.now(timezone.utc).isoformat() at two moments
Instants == {"2026-01-01T00:00:00", "2026-01-01T00:05:00"}

\* the parameters of an action, and the same with one value altered
Parameters == [ d |-> << <<"to", Str("bob")>>, <<"amount", Str("10")>> >> ]

AlteredParameters == [ d |-> << <<"to", Str("bob")>>, <<"amount", Str("1000")>> >> ]

\* an Ed25519 signature as hex text: by the holder of key k over text
Signature(k, text) == [ hex |-> TRUE, by |-> k, over |-> << text >> ]

\* the same signature with one byte flipped, and a signature that is not hex
FlippedSignature == [ hex |-> TRUE, by |-> "nobody", over |-> <<>> ]

NotHexSignature == [ hex |-> FALSE, by |-> "nobody", over |-> <<>> ]

\* decisions an authority signs, with the modifications that go with them
IssuedDecisions ==
    { [decision |-> "denied", modifications |-> <<>>],
      [decision |-> "approved", modifications |-> <<>>],
      [decision |-> "approved_with_modifications",
       modifications |-> << [ d |-> << <<"amount", Str("5")>> >> ] >>] }

\* The authority decides on a request and signs the canonical payload of its
\* decision with key K1: the response JSON it serves carries the proof.
issue ==
    /\ issued = <<>>
    /\ \E dec \in IssuedDecisions :
         LET request     == ConsentRequest(RequestId(1), "n_1", Parameters)
             timestamp   == "2026-01-01T00:00:00"
             valid_until == "2026-01-01T00:05:00"
             hash        == compute_payload_hash(request.id, dec.decision, request.nonce,
                                timestamp, request.action.parameters, dec.modifications,
                                valid_until)
             proof       == [ algorithm |-> "Ed25519", public_key |-> "K1",
                              signature |-> Signature("K1", hash.sha256),
                              signed_payload_hash |-> hash ]
             base        == [ request_id |-> request.id, decision |-> dec.decision,
                              approver |-> << [id |-> "alice", channel |-> "dashboard"] >>,
                              proof |-> << proof >> ]
             data        == IF dec.modifications # <<>>
                            THEN [modifications |-> dec.modifications] @@ base
                            ELSE base
         IN  issued' = << [ request |-> request, data |-> data, timestamp |-> timestamp,
                            valid_until |-> valid_until ] >>
    /\ UNCHANGED <<consent, presented, last, accepted, classified, telegram, canonicalized, terminal>>

\* what is changed, if anything, between the signing and the verification
Tampers ==
    { "nothing", "parameters", "nonce", "decision", "signature", "signature not hex",
      "key", "key not Ed25519", "key malformed", "hash", "no hash", "request id" }

\* the proof, response and request a caller holds: the response is parsed
\* from the authority's JSON by from_dict; stamped says whether the caller
\* gave it the attribute timestamp that verify_proof_hash reads
Presented(i, tamper, stamped) ==
    LET parsed   == from_dict(i.data)
        response == IF stamped THEN [timestamp |-> i.timestamp] @@ parsed ELSE parsed
        proof    == parsed.proof[1]
    IN  [ proof |->
            CASE tamper = "signature"         -> [proof EXCEPT !.signature = FlippedSignature]
              [] tamper = "signature not hex" -> [proof EXCEPT !.signature = NotHexSignature]
              [] tamper = "key"               -> [proof EXCEPT !.public_key = "K2"]
              [] tamper = "key not Ed25519"   -> [proof EXCEPT !.public_key = "KRSA"]
              [] tamper = "key malformed"     -> [proof EXCEPT !.public_key = "KBAD"]
              [] tamper = "hash"              ->
                   [proof EXCEPT !.signed_payload_hash = sha256_hash(canonical_json(JNull))]
              [] tamper = "no hash"           -> [proof EXCEPT !.signed_payload_hash = Str("")]
              [] OTHER                        -> proof,
          response |->
            CASE tamper = "decision"   ->
                   [response EXCEPT !.decision = IF @ = "approved" THEN "denied"
                                                 ELSE "approved"]
              [] tamper = "request id" -> [response EXCEPT !.request_id = ForeignId]
              [] OTHER                 -> response,
          original_request |->
            CASE tamper = "parameters" ->
                   [i.request EXCEPT !.action.parameters = AlteredParameters]
              [] tamper = "nonce"      -> [i.request EXCEPT !.nonce = "n_2"]
              [] OTHER                 -> i.request,
          tamper |-> tamper,
          stamped |-> stamped ]

\* a caller receives a proof with its response and looks up the request
present ==
    /\ issued # <<>>
    /\ \E tamper \in Tampers, stamped \in BOOLEAN :
         presented' = << Presented(issued[1], tamper, stamped) >>
    /\ last' = <<>>
    /\ UNCHANGED <<consent, issued, accepted, classified, telegram, canonicalized, terminal>>

\* trusted_public_keys a caller passes
TrustLists == { <<>>, <<"K1">>, <<"K2", "K3">> }

\* the record of a verification: how it was called and the outcome; replay says
\* that a verification of a request with this nonce had succeeded before
Verification(fn, trusted, library, t, v) ==
    [ fn |-> fn, trusted_public_keys |-> trusted, library |-> library, at |-> t,
      verdict |-> v, replay |-> presented[1].original_request.nonce \in accepted ]

\* the caller verifies what it holds: verify_proof(...)
call_verify_proof ==
    /\ presented # <<>>
    /\ \E trusted \in TrustLists, library \in BOOLEAN, t \in Instants :
         LET p == presented[1]
             v == verify_proof(p.proof, p.response, p.original_request, trusted, library, t)
         IN  /\ last' = << Verification("verify_proof", trusted, library, t, v) >>
             /\ accepted' = IF v.result[1]
                            THEN accepted \cup {p.original_request.nonce}
                            ELSE accepted
    /\ UNCHANGED <<consent, issued, presented, classified, telegram, canonicalized, terminal>>

\* the caller verifies the hash only: verify_proof_hash(...)
call_verify_proof_hash ==
    /\ presented # <<>>
    /\ \E t \in Instants :
         LET p == presented[1]
             v == verify_proof_hash(p.proof, p.response, p.original_request, t)
         IN  /\ last' = << Verification("verify_proof_hash", <<>>, FALSE, t, v) >>
             /\ accepted' = IF v.result[1]
                            THEN accepted \cup {p.original_request.nonce}
                            ELSE accepted
    /\ UNCHANGED <<consent, issued, presented, classified, telegram, canonicalized, terminal>>

VerifyNext ==
    \/ issue
    \/ present
    \/ call_verify_proof
    \/ call_verify_proof_hash

\* proof verification on its own: the verifier shares no state with the calls
\* and reads nothing of the environment
VerifyInit ==
    /\ Init
    /\ env = [ACP_GATEWAY_URL |-> None, ACP_TELEGRAM_TOKEN |-> None]

VerifySpec == VerifyInit /\ [][VerifyNext]_vars

----------------------------------------------------------------------------
(* types.py: classify_tool called on its own *)

\* tool names classify_tool is called with: names of the table, names with a
\* prefix of the prefix table, names with both, names with neither
ClassifyNames ==
    ToolNames \cup
    { <<"send", "slack">>, <<"create", "post">>, <<"deploy", "now">>, <<"get">> }

\* values passed as override_category and override_risk
CategoryOverrides == {None, "", "financial", "physical", "finance"}

RiskOverrides == {None, "", "low", "critical", "severe"}

\* result = classify_tool(tool_name, override_category, override_risk)
call_classify_tool ==
    /\ classified = <<>>
    /\ \E text \in ClassifyNames, spelling \in Spellings,
          override_category \in CategoryOverrides, override_risk \in RiskOverrides :
         LET tool_name == [text |-> text, spelling |-> spelling]
             raised    == classify_tool_raises(override_category, override_risk)
         IN  classified' =
               << [ tool_name |-> tool_name,
                    override_category |-> override_category,
                    override_risk |-> override_risk,
                    raised |-> raised,
                    result |-> IF raised THEN <<>>
                               ELSE classify_tool(tool_name, override_category,
                                                  override_risk) ] >>
    /\ UNCHANGED <<consent, verification, telegram, canonicalized, terminal>>

\* the caller has the pair, or the exception, and goes on
classify_returns ==
    /\ classified # <<>>
    /\ classified' = <<>>
    /\ UNCHANGED <<consent, verification, telegram, canonicalized, terminal>>

ClassifyNext ==
    \/ call_classify_tool
    \/ classify_returns

\* classify_tool is a pure function: it reads the two tables and its arguments
ClassifySpec == VerifyInit /\ [][ClassifyNext]_vars

----------------------------------------------------------------------------
(* telegram_handler.py: prompt_telegram, step by step, for two requests *)

\* two calls of prompt_telegram that run at the same time on one bot
TgSessions == {"A", "B"}

\* request.id of each call
RequestOf == [A |-> RequestId(1), B |-> RequestId(2)]

\* poll_interval: float = 2.0
poll_interval == 2

\* timeout_seconds the calls are given
TgTimeouts == {1, 3}

\* the updates the bot can receive, callback data split at ":".  The buttons
\* of a request carry acp:approve:<id> and acp:deny:<id>; the other updates
\* are what else a bot is sent: data of another form or with another action,
\* an update that is no callback query.  A callback query always has a sender.
Callbacks ==
      { [data |-> <<"acp", a, RequestOf[s]>>, from |-> <<"42">>] :
          a \in {"approve", "deny"}, s \in TgSessions }
 \cup { [data |-> <<"acp", "later", RequestOf["A"]>>, from |-> <<"42">>],
        [data |-> <<"acp", "approve", RequestOf["A"], "x">>, from |-> <<"42">>],
        [data |-> <<"menu", "approve", RequestOf["A"]>>, from |-> <<"42">>],
        [data |-> <<>>, from |-> <<>>] }

\* the requests whose button an update is
ButtonOf(c) ==
    { s \in TgSessions : c.from # <<>> /\ \E a \in {"approve", "deny"} :
                           c.data = <<"acp", a, RequestOf[s]>> }

\* (mutant) the request id of the callback data is not compared
IsForRequest_anyId(update, request_id) ==
    /\ update.data # <<>>
    /\ Len(update.data) >= 2 /\ update.data[1] = "acp"
    /\ Len(update.data) = 3

\* the two tests of the for loop that let an update through: it is a callback
\* query whose data starts with "acp:", and the data has three parts of which
\* the last is request.id
IsForRequest(update, request_id) ==
    /\ update.data # <<>>
    /\ Len(update.data) >= 2 /\ update.data[1] = "acp"
    /\ Len(update.data) = 3 /\ update.data[3] = request_id

\* the update_id of the k-th update the bot holds
UpdateId(k) == bot.confirmed + k

\* the updates getUpdates returns for an offset, as positions of the queue:
\* those whose update_id is at least the offset
Batch(offset) == { k \in 1..Len(bot.queue) : UpdateId(k) >= offset }

\* calling getUpdates with an offset confirms every update below it: the bot
\* holds it no longer
Confirm(offset) ==
    IF offset - 1 > bot.confirmed
    THEN [bot EXCEPT !.queue = SubSeq(@, offset - bot.confirmed, Len(@)),
                     !.confirmed = offset - 1]
    ELSE bot

\* the response returned for a callback of this request
CallbackResponse(request_id, update) ==
    ConsentResponse(request_id,
                    IF update.data[2] = "approve" THEN "approved" ELSE "denied",
                    "tg_42", "telegram", None, <<>>, <<>>, FALSE)

\* (mutant) a session nobody answered on Telegram counts as expired and unexplained
TelegramTimeoutResponse_expired(request_id) ==
    ConsentResponse(request_id, "expired", "system_timeout", "telegram",
                    None, <<>>, <<>>, FALSE)

\* the response built after the loop
TelegramTimeoutResponse(request_id) ==
    ConsentResponse(request_id, "denied", "system_timeout", "telegram",
                    "Request timed out", <<>>, <<>>, FALSE)

\* the locals of a call that has returned or raised are gone
Ended(ret_, exc_) ==
    [ pc |-> "done", timeout_seconds |-> 0, elapsed |-> 0, last_update_id |-> 0,
      ret |-> ret_, exc |-> exc_ ]

\* prompt_telegram up to the poll loop: the credentials, sendMessage, and
\* start_time = time.time(), last_update_id = 0
sendMessage(s) ==
    /\ sessions[s].pc = "idle"
    /\ \E bot_token \in StrInputs, chat_id \in {None, "set"} :
         IF ~Truthy(Or(bot_token, env.ACP_TELEGRAM_TOKEN)) \/ ~Truthy(chat_id)
         THEN sessions' = [sessions EXCEPT ![s] = Ended(<<>>, "ValueError")]
         ELSE \/ \E e \in {"RequestException", "KeyError"} :
                   sessions' = [sessions EXCEPT ![s] = Ended(<<>>, e)]
              \/ \E timeout_seconds \in TgTimeouts :
                   sessions' = [sessions EXCEPT ![s].pc = "polling",
                                                ![s].timeout_seconds = timeout_seconds,
                                                ![s].elapsed = 0,
                                                ![s].last_update_id = 0]
    /\ UNCHANGED <<consent, verification, classified, canonicalized, terminal, bot>>

\* one iteration of the poll loop: getUpdates with offset last_update_id + 1,
\* which waits int(poll_interval) when the bot holds nothing to return; the for
\* loop over its result up to the first callback of this request;
\* answerCallbackQuery and editMessageText.  Every exception ends in
\* time.sleep(poll_interval) and continue.  elapsed is time.time() - start_time.
getUpdates(s) ==
    LET self    == sessions[s]
        offset  == self.last_update_id + 1
        batch   == Batch(offset)
        hits    == { k \in batch : IsForRequest(bot.queue[k], RequestOf[s]) }
        first   == CHOOSE k \in hits : \A j \in hits : k <= j
        highest == CHOOSE k \in batch : \A j \in batch : k >= j
        asleep(seen, d) == [sessions EXCEPT ![s].elapsed = @ + d + poll_interval,
                                            ![s].last_update_id = seen]
    IN
    /\ self.pc = "polling"
    /\ LoopCondition(self.elapsed, 0, self.timeout_seconds)
    /\ \E d \in Latencies :
       \/ \* requests.get or raise_for_status raises
          /\ sessions' = asleep(self.last_update_id, d)
          /\ UNCHANGED bot
       \/ /\ bot' = Confirm(offset)
          /\ IF batch = {}
             THEN sessions' = [sessions EXCEPT ![s].elapsed = @ + poll_interval]
             ELSE IF hits = {}
             THEN sessions' = [sessions EXCEPT ![s].elapsed = @ + d,
                                               ![s].last_update_id = UpdateId(highest)]
             ELSE \/ \* answerCallbackQuery or editMessageText raises
                     sessions' = asleep(UpdateId(first), d)
                  \/ sessions' = [sessions EXCEPT ![s] =
                                    Ended(<< CallbackResponse(RequestOf[s],
                                                              bot.queue[first]) >>, None)]
    /\ UNCHANGED <<consent, verification, classified, canonicalized, terminal>>

\* the loop condition fails: editMessageText, whose failure is passed over,
\* and the timeout response
tg_timeout(s) ==
    /\ sessions[s].pc = "polling"
    /\ ~LoopCondition(sessions[s].elapsed, 0, sessions[s].timeout_seconds)
    /\ \E edit_fails \in BOOLEAN :
         sessions' = [sessions EXCEPT ![s] =
                        Ended(<< TelegramTimeoutResponse(RequestOf[s]) >>, None)]
    /\ UNCHANGED <<consent, verification, classified, canonicalized, terminal, bot>>

\* the bot receives an update; a button can be pressed once its message is out
callback_query ==
    /\ bot.received < MaxUpdates
    /\ \E c \in Callbacks :
         /\ \A s \in ButtonOf(c) : sessions[s].pc = "polling"
                                   \/ (sessions[s].pc = "done" /\ sessions[s].ret # <<>>)
         /\ bot' = [bot EXCEPT !.queue = Append(@, c), !.received = @ + 1]
    /\ UNCHANGED <<consent, verification, classified, canonicalized, terminal, sessions>>

TelegramNext ==
    \/ \E s \in TgSessions : sendMessage(s)
    \/ \E s \in TgSessions : getUpdates(s)
    \/ \E s \in TgSessions : tg_timeout(s)
    \/ callback_query

TelegramSpec == VerifyInit /\ [][TelegramNext]_vars

\* one call of prompt_telegram on a bot of its own
SoloTelegramNext ==
    \/ sendMessage("A")
    \/ getUpdates("A")
    \/ tg_timeout("A")
    \/ callback_query

\* The call is sequential code whose HTTP calls carry a timeout: an
\* iteration of the poll loop that can run does run.
FairTelegramSpec ==
    /\ VerifyInit
    /\ [][SoloTelegramNext]_vars
    /\ WF_vars(getUpdates("A"))
    /\ WF_vars(tg_timeout("A"))

----------------------------------------------------------------------------
(* crypto.py: canonical_json called on its own *)

\* the keys and the scalars of the values canonical_json is called with
CanonKeys == {"amount", "nonce", "to"}

Scalars == {Str("x"), JNull}

\* the orders in which a dict can hold one, two or three of the keys
KeySeqs(n) ==
    { ks \in [1..n -> CanonKeys] : \A i, j \in 1..n : i # j => ks[i] # ks[j] }

\* dicts of scalars, up to three keys, in every insertion order
FlatDicts ==
    UNION { { [d |-> [i \in 1..n |-> << ks[i], vs[i] >>]] :
                ks \in KeySeqs(n), vs \in [1..n -> Scalars] } : n \in 0..3 }

\* the dicts with the keys "to" and "amount", in both insertion orders
PairDicts == { v \in FlatDicts : Len(v.d) = 2 /\ { v.d[1][1], v.d[2][1] } = {"amount", "to"} }

\* lists and tuples of up to two scalars or dicts
Sequences2 ==
    LET elems == Scalars \cup PairDicts
        seqs  == UNION { [1..n -> elems] : n \in 0..2 }
    IN  { [l |-> vs] : vs \in seqs } \cup { [tuple |-> vs] : vs \in seqs }

\* dicts of two keys that hold scalars, dicts, and lists and tuples of one dict
NestedDicts ==
    LET inner == {JNull} \cup PairDicts
                 \cup { [l |-> <<v>>] : v \in PairDicts }
                 \cup { [tuple |-> <<v>>] : v \in PairDicts }
    IN  { [d |-> << <<ks[1], a>>, <<ks[2], b>> >>] : ks \in KeySeqs(2), a \in inner, b \in inner }

\* the values canonical_json is called with: what json.dumps accepts
CanonValues == Scalars \cup FlatDicts \cup Sequences2 \cup NestedDicts

RECURSIVE Reinserted(_, _)
\* the same value built again with the pairs of its dicts inserted in the
\* opposite order: of the outer dict only, or of every dict
Reinserted(v, deep) ==
    LET sub(x) == IF deep THEN Reinserted(x, deep) ELSE x IN
    IF "d" \in DOMAIN v
    THEN [d |-> [i \in 1..Len(v.d) |->
                   << v.d[Len(v.d) + 1 - i][1], sub(v.d[Len(v.d) + 1 - i][2]) >>]]
    ELSE IF "l" \in DOMAIN v
    THEN [l |-> [i \in 1..Len(v.l) |-> sub(v.l[i])]]
    ELSE IF "tuple" \in DOMAIN v
    THEN [tuple |-> [i \in 1..Len(v.tuple) |-> sub(v.tuple[i])]]
    ELSE v

\* text = canonical_json(v); other = canonical_json(the same pairs, inserted
\* in another order); again = canonical_json(json.loads(text))
call_canonical_json ==
    /\ canonicalized = <<>>
    /\ \E v \in CanonValues, deep \in BOOLEAN :
         canonicalized' =
           << [ v     |-> v,
                w     |-> Reinserted(v, deep),
                text  |-> canonical_json(v),
                other |-> canonical_json(Reinserted(v, deep)),
                again |-> canonical_json(loads(canonical_json(v))) ] >>
    /\ UNCHANGED <<consent, verification, classified, telegram, terminal>>

\* the caller has the texts and goes on
canonical_json_returns ==
    /\ canonicalized # <<>>
    /\ canonicalized' = <<>>
    /\ UNCHANGED <<consent, verification, classified, telegram, terminal>>

CanonNext ==
    \/ call_canonical_json
    \/ canonical_json_returns

\* canonical_json is a pure function of its argument
CanonSpec == VerifyInit /\ [][CanonNext]_vars

----------------------------------------------------------------------------
(* local.py: _plain_prompt *)

\* what a human types at the prompt before Enter
AnswerTexts == {"a", "approve", "y", "yes", "d", "deny", "n", "no", "maybe", "approved", ""}

\* lines input() can return
AnswerLines == [text : AnswerTexts, spelling : Spellings]

\* input() raises instead of returning a line
InputErrors == {[raises |-> "EOFError"], [raises |-> "KeyboardInterrupt"]}

\* (mutant) the line is lower-cased but not trimmed
ReadAnswer_untrimmed(line) == lower(line)

\* answer = input(...).strip().lower()
ReadAnswer(line) == lower(strip(line))

\* an answer as the string literal it is compared with
Literal(text) == [text |-> text, spelling |-> Plain]

\* the branch of the if / elif / else the answer takes: a decision, or None
\* when the loop goes round
PlainDecision(answer) ==
    IF answer \in {Literal("a"), Literal("approve"), Literal("y"), Literal("yes")}
    THEN "approved"
    ELSE IF answer \in {Literal("d"), Literal("deny"), Literal("n"), Literal("no")}
    THEN "denied"
    ELSE None

\* _plain_prompt(request) is called: the request is printed
call_plain_prompt ==
    /\ terminal.pc = "idle"
    /\ terminal' = [NoPrompt EXCEPT !.pc = "prompting"]
    /\ UNCHANGED <<consent, verification, classified, telegram, canonicalized>>

\* one round of the loop: input() returns a line or raises, the answer is
\* looked at, and the function returns or prompts again
read_answer ==
    /\ terminal.pc = "prompting"
    /\ terminal.reads < MaxReads
    /\ \E event \in AnswerLines \cup InputErrors :
         LET answer   == IF event \in InputErrors THEN Literal("d") ELSE ReadAnswer(event)
             decision == PlainDecision(answer)
         IN  terminal' =
               [ pc    |-> IF decision = None THEN "prompting" ELSE "returned",
                 reads |-> terminal.reads + 1,
                 line  |-> << event >>,
                 ret   |-> IF decision = None
                           THEN <<>>
                           ELSE << ConsentResponse(RequestId(1), decision, "local_user",
                                                   "terminal", None, <<>>, <<>>, FALSE) >> ]
    /\ UNCHANGED <<consent, verification, classified, telegram, canonicalized>>

\* the caller has the response
plain_prompt_returns ==
    /\ terminal.pc = "returned"
    /\ terminal' = NoPrompt
    /\ UNCHANGED <<consent, verification, classified, telegram, canonicalized>>

PromptNext ==
    \/ call_plain_prompt
    \/ read_answer
    \/ plain_prompt_returns

PromptSpec == VerifyInit /\ [][PromptNext]_vars

----------------------------------------------------------------------------
(* Properties *)

\* the call has reached its caller
Finished == pc \in {"check", "done"}

Approving == {"approved", "approved_with_modifications"}

\* the authority's reply to the submit carried auto_approved
AutoApprovedReply ==
    sess.data # <<>> /\ Get(sess.data[1], "auto_approved", FALSE)

\* the authority's reply to the submit carried auto_denied
AutoDeniedReply ==
    sess.data # <<>> /\ Get(sess.data[1], "auto_denied", FALSE)

\* the authority accepted the request for a human to decide: {request_id}
PlainReply ==
    /\ sess.data # <<>>
    /\ "request_id" \in DOMAIN sess.data[1]
    /\ ~AutoApprovedReply
    /\ ~AutoDeniedReply

\* some status query was answered approved, denied or expired
TerminalStatusSeen == sess.seen \cap {"approved", "denied", "expired"} # {}

\* C1: fail-closed.  A gateway session in which the authority neither set
\* auto_approved in its submit reply nor reported a terminal status on any poll
\* never returns an approved response, whatever pending or transitional
\* replies, elapsed time and errors it met.
C1_FailClosed ==
    (sess.submits > 0 /\ ~AutoApprovedReply /\ ~TerminalStatusSeen /\ ret # <<>>)
        => ret[1].decision \notin Approving

\* a session that polled twice, saw pending and a transitional status, and
\* returned a denial
C1_Witness ==
    /\ Finished
    /\ sess.polls >= 2
    /\ sess.seen = {"pending", "escalated"}
    /\ ret # <<>>
    /\ ret[1].decision = "denied"

\* every poll of the session was answered pending
OnlyPending == PlainReply /\ sess.seen \subseteq {"pending"}

\* C2: when the authority answers pending on every poll, the session ends (the
\* poll loop is always left), not before timeout_seconds have passed since
\* polling began, and returns decision denied, approver system_timeout,
\* channel gateway, reason "Request timed out".
C2_TimesOut ==
    /\ [](Finished /\ OnlyPending =>
            /\ ret # <<>>
            /\ ret[1].decision = "denied"
            /\ ret[1].approver_id = "system_timeout"
            /\ ret[1].channel = "gateway"
            /\ ret[1].reason = "Request timed out"
            /\ now - sess.start >= Self.timeout_seconds)
    /\ ((pc = "polling") ~> Finished)

\* a session answered pending twice that ended after its deadline
C2_Witness ==
    /\ Finished
    /\ OnlyPending
    /\ sess.polls = 2
    /\ now - sess.start > Self.timeout_seconds
    /\ ret[1].approver_id = "system_timeout"

\* C3: the body of a function wrapped by requires_consent runs (once) only
\* after the consent check of that call returned an approved response; when
\* the response is not approved, ConsentDeniedError carrying that response is
\* raised and the body does not run.
C3_BodyOnlyIfApproved ==
    /\ body_runs > 0 =>
         /\ call.wrapped
         /\ body_runs = 1
         /\ ret # <<>>
         /\ ret[1].decision \in Approving
         /\ exc = NoException
    /\ (pc = "done" /\ call.wrapped /\ ret # <<>> /\ ret[1].decision \notin Approving) =>
         /\ exc = [type |-> "ConsentDeniedError", response |-> ret]
         /\ body_runs = 0

\* an async wrapped function whose consent check came back expired
C3_Witness ==
    /\ pc = "done"
    /\ call.wrapped
    /\ call.is_async
    /\ ret # <<>>
    /\ ret[1].decision = "expired"
    /\ exc.type = "ConsentDeniedError"

\* C4: a call produces at most one response for its request, and once the call
\* has an outcome (a response or an exception) no further submit or poll is
\* made and the response does not change.
C4_OneResponse ==
    /\ [](responses <= 1 /\ (ret # <<>> => responses = 1))
    /\ [][ ((ret # <<>> \/ exc # NoException) /\ pc' # "idle")
             => (sess' = sess /\ ret' = ret /\ responses' = responses) ]_vars

\* a polled session handed its response to the wrapper
C4_Witness ==
    /\ pc = "check"
    /\ responses = 1
    /\ sess.polls = 2
    /\ sess.status = "approved"

\* C5: a submit reply with auto_approved true ends the session at once with
\* decision approved, channel gateway and auto_approved true on the response,
\* and no status query is made.
C5_AutoApproved ==
    (AutoApprovedReply /\ "request_id" \in DOMAIN sess.data[1]) =>
        /\ Finished
        /\ sess.polls = 0
        /\ ret # <<>>
        /\ ret[1].decision = "approved"
        /\ ret[1].channel = "gateway"
        /\ ret[1].auto_approved

\* an auto-approval that carried a reason
C5_Witness ==
    /\ Finished
    /\ AutoApprovedReply
    /\ ret # <<>>
    /\ ret[1].reason = "allowed by policy"

\* the submit reply was {request_id, auto_denied: true, reason}
AutoDeniedWithReason ==
    /\ sess.data # <<>>
    /\ DOMAIN sess.data[1] = {"request_id", "auto_denied", "reason"}
    /\ sess.data[1].auto_denied

\* C6: a submit reply {request_id, auto_denied: true, reason: r} ends the
\* session with decision denied, channel gateway and reason r, and no status
\* query is made.
C6_AutoDenied ==
    AutoDeniedWithReason =>
        /\ Finished
        /\ sess.polls = 0
        /\ ret # <<>>
        /\ ret[1].decision = "denied"
        /\ ret[1].channel = "gateway"
        /\ ret[1].reason = sess.data[1].reason

\* an auto-denial "blocked by policy"
C6_Witness ==
    /\ Finished
    /\ AutoDeniedWithReason
    /\ ret # <<>>
    /\ ret[1].reason = "blocked by policy"

\* C7: a failed status query is transient: the session is not abandoned and no
\* error reaches the caller.
C7_PollFailureTolerated ==
    "poll failed" \in sess.seen => exc = NoException

\* C8: a failed submit (no connection, or an HTTP status such as 403) reaches
\* the caller at once as an exception: no response is returned, no status
\* query is made.
C8_SubmitFailureSurfaces ==
    "submit failed" \in sess.seen =>
        /\ pc = "done"
        /\ exc.type \in {"ConnectionError", "HTTPError"}
        /\ ret = <<>>
        /\ responses = 0
        /\ sess.polls = 0
        /\ body_runs = 0

\* a submit answered with HTTP 403
C8_Witness ==
    /\ pc = "done"
    /\ "submit failed" \in sess.seen
    /\ sess.status = "HTTP 403"
    /\ exc.type = "HTTPError"

\* a URL or token is configured: given as a parameter or found in the environment
Configured(param, envvar) == param \notin {None, ""} \/ envvar \notin {None, ""}

\* C9: the mode a constructor selects is the explicit mode if one is given;
\* else gateway if a gateway URL is configured; else telegram if a token is
\* configured; else local.
C9_ModePrecedence ==
    pc = "constructed" =>
        LET p    == call.params
            mode == client[1]._mode
            url  == Configured(p.gateway_url, env.ACP_GATEWAY_URL)
            tok  == Configured(p.telegram_token, env.ACP_TELEGRAM_TOKEN)
        IN  /\ p.mode \notin {None, ""} => mode = p.mode
            /\ (p.mode \in {None, ""} /\ url) => mode = "gateway"
            /\ (p.mode \in {None, ""} /\ ~url /\ tok) => mode = "telegram"
            /\ (p.mode \in {None, ""} /\ ~url /\ ~tok) => mode = "local"

\* no explicit mode, the URL only in the environment, a token as a parameter
C9_Witness ==
    /\ pc = "constructed"
    /\ call.params.mode = ""
    /\ call.params.gateway_url = ""
    /\ env.ACP_GATEWAY_URL = "set"
    /\ call.params.telegram_token = "set"
    /\ client[1]._mode = "gateway"

\* C10: the mode of a client never changes after construction, whatever calls
\* are made on it and however they end.
C10_ModeFixed ==
    [][ /\ client # <<>> => (client' # <<>> /\ client'[1]._mode = client[1]._mode)
        /\ _default_client # <<>> =>
             (_default_client' # <<>> /\ _default_client'[1]._mode = _default_client[1]._mode)
      ]_vars

\* a client in explicit local mode, after a second call that raised, though a
\* gateway URL is configured
C10_Witness ==
    /\ pc = "done"
    /\ calls >= 2
    /\ client # <<>>
    /\ client[1]._mode = "local"
    /\ client[1].gateway_url = "set"
    /\ exc.type = "HandlerError"

\* C11: the request of a call is handed to at most one of the local policy
\* shortcut, the custom on_consent handler, the gateway, telegram and the local
\* prompt, and a response comes from exactly one of them; when the client has
\* an on_consent handler and the shortcut does not fire, the handler alone is
\* used, and its response returned, whatever the mode.
C11_OneChannel ==
    /\ Cardinality(channels) <= 1
    /\ ret # <<>> => Cardinality(channels) = 1
    /\ (call.kind = "call" /\ Truthy(Self.on_consent) /\ channels # {}
          /\ "policy_auto" \notin channels) =>
         /\ channels = {"on_consent"}
         /\ sess.submits = 0
         /\ ret # <<>> => ret[1] \in HandlerResponses(call.request_id)

\* a client in gateway mode whose handler answered: the gateway saw nothing
C11_Witness ==
    /\ pc = "done"
    /\ Self._mode = "gateway"
    /\ Truthy(Self.gateway_url)
    /\ channels = {"on_consent"}
    /\ sess.submits = 0
    /\ ret # <<>>
    /\ ret[1].decision = "approved"

\* C12: every response request_consent returns through the low-risk shortcut,
\* the local prompt, telegram or the gateway (auto-decision, polled decision,
\* timeout) carries as request_id the id generated for the request of that call.
C12_ReferencesRequest ==
    (ret # <<>> /\ "on_consent" \notin channels) =>
        ret[1].request_id = call.request_id

\* the hash recomputed from what the caller holds: request id, decision, nonce,
\* action parameters and modifications as presented, timestamp and valid_until
\* as the authority signed them
ExpectedHash ==
    compute_payload_hash(presented[1].response.request_id, presented[1].response.decision,
        presented[1].original_request.nonce, issued[1].timestamp,
        presented[1].original_request.action.parameters,
        presented[1].response.modifications, issued[1].valid_until)

\* the signature of the proof is one by the proof's key over that payload
SignatureValid ==
    /\ KeyMaterial[presented[1].proof.public_key] = "Ed25519"
    /\ presented[1].proof.signature =
         Signature(presented[1].proof.public_key, ExpectedHash.sha256)

\* the proof's key is in the list of trusted keys the caller passed
KeyTrusted ==
    \E i \in 1..Len(last[1].trusted_public_keys) :
        last[1].trusted_public_keys[i] = presented[1].proof.public_key

\* C13: verify_proof fails with the untrusted-key error whenever the list of
\* trusted keys is not empty and the proof's key is not in it, with and
\* without the signature library.
C13_UntrustedKeyRejected ==
    (last # <<>> /\ last[1].fn = "verify_proof"
       /\ last[1].trusted_public_keys # <<>> /\ ~KeyTrusted) =>
        last[1].verdict.result = <<FALSE, "Unknown or untrusted public key">>

\* C14: verification fails whenever the proof's signed_payload_hash differs from
\* the hash recomputed from request id, decision, nonce, timestamp, action
\* parameters, modifications and valid_until; so it fails when the parameters,
\* the nonce or the decision were altered after signing.
C14_TamperedPayloadRejected ==
    (last # <<>> /\ presented[1].proof.signed_payload_hash # ExpectedHash) =>
        ~last[1].verdict.result[1]

\* C15: with the signature library, verify_proof fails when the signature is
\* not one by the proof's key over the canonical payload, or the key material
\* is malformed: such a proof is never reported valid.
C15_BadSignatureRejected ==
    (last # <<>> /\ last[1].fn = "verify_proof" /\ last[1].library /\ ~SignatureValid) =>
        ~last[1].verdict.result[1]

\* C16: a response parsed from the authority's JSON, with its proof and the
\* original request all as signed, and the key trusted, verifies: (True, None)
\* from verify_proof and from verify_proof_hash.
C16_ValidProofAccepted ==
    (last # <<>> /\ presented[1].tamper = "nothing" /\ ~presented[1].stamped
       /\ (last[1].trusted_public_keys = <<>> \/ KeyTrusted)) =>
        last[1].verdict.result = <<TRUE, None>>

C18_ValidUntilFromSigned ==
    (last # <<>> /\ last[1].verdict.valid_until # <<>>) =>
        /\ last[1].verdict.valid_until[1] = issued[1].valid_until
        /\ \A t \in Instants :
             verify_proof_hash(presented[1].proof, presented[1].response,
                               presented[1].original_request, t).expected
               = last[1].verdict.expected

\* C19: once a verification of a request has succeeded, a later verification
\* that presents the same nonce fails.
C19_NonceSingleUse ==
    (last # <<>> /\ last[1].replay) => ~last[1].verdict.result[1]

\* the length of each prefix of _TOOL_PREFIXES, underscore included
PrefixLength ==
    [ read |-> 5, get |-> 4, list |-> 5, fetch |-> 6, search |-> 7, send |-> 5,
      delete |-> 7, remove |-> 7, create |-> 7, update |-> 7, deploy |-> 7, post |-> 5 ]

\* the reference lookup for a name as it is matched: the table of names, else
\* the longest prefix that matches, else (data, medium)
ReferenceLookup(name) ==
    LET hits == { i \in 1..Len(_TOOL_PREFIXES) : StartsWith(name, _TOOL_PREFIXES[i][1]) }
        longest == CHOOSE i \in hits :
                     \A j \in hits : PrefixLength[_TOOL_PREFIXES[i][1]]
                                       >= PrefixLength[_TOOL_PREFIXES[j][1]]
    IN  IF InTable(name) THEN _TOOL_CLASSIFICATIONS[name.text]
        ELSE IF hits # {} THEN _TOOL_PREFIXES[longest][2]
        ELSE <<"data", "medium">>

\* the reference: each field is its override if one is given, else looked up
Reference(name, override_category, override_risk) ==
    << IF override_category # None THEN override_category ELSE ReferenceLookup(name)[1],
       IF override_risk # None THEN override_risk ELSE ReferenceLookup(name)[2] >>

\* a call of classify_tool whose overrides are absent or values of the enums
ClassifiedWithOverrides ==
    /\ classified # <<>>
    /\ classified[1].override_category \in ActionCategory \cup {None}
    /\ classified[1].override_risk \in RiskLevel \cup {None}

\* C20 as claimed: for every tool name and overrides the result is the
\* reference, the name matched without regard to case: override per field,
\* else the table of names, else the longest matching prefix, else (data, medium).
C20_AsClaimed ==
    ClassifiedWithOverrides =>
        /\ ~classified[1].raised
        /\ classified[1].result =
             Reference(lower(classified[1].tool_name), classified[1].override_category,
                       classified[1].override_risk)

\* C20: for every tool name and overrides the result of classify_tool is the
\* reference, the name matched in lower case and without the blanks around it:
\* override per field, else the table of names, else the longest matching
\* prefix, else (data, medium); delete_file is (data, high), get_report
\* (data, low), frobnicate_widget (data, medium).
C20_Classify ==
    ClassifiedWithOverrides =>
        LET c == classified[1] IN
        /\ ~c.raised
        /\ c.result = Reference(strip(lower(c.tool_name)), c.override_category,
                                c.override_risk)
        /\ (c.tool_name.spelling = Plain /\ c.override_category = None
              /\ c.override_risk = None) =>
             /\ c.tool_name.text = <<"delete", "file">> => c.result = <<"data", "high">>
             /\ c.tool_name.text = <<"get", "report">> => c.result = <<"data", "low">>
             /\ c.tool_name.text = <<"frobnicate", "widget">> =>
                  c.result = <<"data", "medium">>

\* " SEND_SLACK " with the risk overridden: the category is the one of the
\* table of names
C20_Witness ==
    /\ classified # <<>>
    /\ classified[1].tool_name = [text |-> <<"send", "slack">>, spelling |-> Padded]
    /\ classified[1].override_category = None
    /\ classified[1].override_risk = "critical"
    /\ classified[1].result = <<"communication", "critical">>

\* C21: classify_tool is total: for every tool name and every value passed as
\* category or risk override the call returns a (category, risk) pair and
\* never raises.
C21_Total ==
    classified # <<>> =>
        /\ ~classified[1].raised
        /\ classified[1].result \in ActionCategory \X RiskLevel

\* C22: for every ConsentResponse, approved is true iff decision is approved
\* or approved_with_modifications; denied and expired responses are never
\* approved.  The wrapper, which reads approved, raises ConsentDeniedError
\* for exactly the other responses.
C22_Approved ==
    ret # <<>> =>
        /\ approved(ret[1]) <=>
             ret[1].decision \in {"approved", "approved_with_modifications"}
        /\ ret[1].decision \in {"denied", "expired"} => ~approved(ret[1])
        /\ (call.kind = "call" /\ call.wrapped /\ pc = "done") =>
             (exc.type = "ConsentDeniedError" <=>
                ret[1].decision \notin {"approved", "approved_with_modifications"})

\* a wrapped call whose response was approved_with_modifications went on
\* to the body
C22_Witness ==
    /\ ret # <<>>
    /\ ret[1].decision = "approved_with_modifications"
    /\ approved(ret[1])
    /\ call.kind = "call" /\ call.wrapped /\ pc = "done"
    /\ exc.type = None
    /\ body_runs > 0

\* statuses the authority reports while a request is not decided
Transitional == {"pending", "escalated", "deferred"}

\* C23: the decision of every response returned to a caller is one of
\* approved, approved_with_modifications, denied, expired; pending, escalated
\* and deferred are never returned as a decision, whether the response is
\* built locally or parsed from an embedded payload.
C23_TerminalDecision ==
    /\ ret # <<>> =>
         /\ ret[1].decision \in ConsentDecision
         /\ ret[1].decision \notin Transitional
    /\ exc.response # <<>> => exc.response[1].decision \in ConsentDecision

\* a session that saw a transitional status and then returned the response
\* parsed from the payload of a terminal status reply
C23_Witness ==
    /\ Finished
    /\ "deferred" \in sess.seen
    /\ ret # <<>>
    /\ ret[1].approver_id = "alice"
    /\ ret[1].decision \in ConsentDecision

\* the response in hand was decided without the remote authority's approver:
\* by the local prompt, the Telegram channel, the low-risk shortcut, a gateway
\* auto-approval or auto-denial, or the timeout of the poll loop
DecidedWithoutAuthority ==
    \/ channels \cap {"local", "telegram", "policy_auto"} # {}
    \/ channels = {"gateway"} /\ ~TerminalStatusSeen

\* C24: a ConsentProof exists only on remote-authority decisions: every
\* response of the local prompt, the Telegram channel, the low-risk
\* shortcut, a gateway auto-approval or auto-denial, or a timeout has proof None.
C24_ProofOnlyRemote ==
    (ret # <<>> /\ DecidedWithoutAuthority) => ret[1].proof = <<>>

\* every kind of response without a proof is returned by some call; this
\* one is a gateway auto-denial
C24_Witness ==
    /\ Finished
    /\ channels = {"gateway"}
    /\ AutoDeniedReply
    /\ sess.polls = 0
    /\ ret # <<>>
    /\ ret[1].decision = "denied"
    /\ ret[1].proof = <<>>

\* the Telegram channel has no bot token: none given, none in the environment
TokenMissing ==
    ~Truthy(Or(Self.telegram_token, env.ACP_TELEGRAM_TOKEN))

\* C25: missing channel credentials fail fast: when the Telegram channel is
\* selected but no bot token is available, the configuration error is raised
\* before a ConsentRequest is built and before any message is sent, and no
\* ConsentResponse is produced.
C25_FailFast ==
    (pc = "done" /\ call.kind = "call" /\ channels = {"telegram"} /\ TokenMissing) =>
        /\ exc.type = "ValueError"
        /\ ret = <<>>
        /\ responses = 0
        /\ call.request = <<>>

\* session s goes from unresolved to a response that is not the timeout's
ResolvedByCallback(s) ==
    /\ sessions[s].ret = <<>>
    /\ sessions'[s].ret # <<>>
    /\ sessions'[s].ret[1].approver_id # "system_timeout"

\* C26: the Telegram session is resolved only by a callback correlated to its
\* own request id: it returns a response other than the timeout's only in a
\* poll whose result holds a callback with data acp:<action>:<this request
\* id>, and that response is approved only if the action is approve; any other
\* action yields denied.  Data of another form or with another request's id
\* resolves nothing.
C26_OwnCallbackOnly ==
    [][\A s \in TgSessions :
         ResolvedByCallback(s) =>
           /\ sessions[s].pc = "polling"
           /\ \E k \in Batch(sessions[s].last_update_id + 1), a \in {"approve", "deny", "later"} :
                /\ bot.queue[k].data = <<"acp", a, RequestOf[s]>>
                /\ \A j \in Batch(sessions[s].last_update_id + 1) :
                     j < k => bot.queue[j].data \notin
                                { <<"acp", b, RequestOf[s]>> : b \in {"approve", "deny", "later"} }
                /\ sessions'[s].ret[1].decision =
                     IF a = "approve" THEN "approved" ELSE "denied"
                /\ sessions'[s].ret[1].request_id = RequestOf[s]
                /\ sessions'[s].ret[1].channel = "telegram"]_vars

\* session B was approved by its own button while the bot held, ahead of
\* it, a deny for request A
C26_Witness ==
    /\ sessions["B"].pc = "done"
    /\ sessions["B"].ret # <<>>
    /\ sessions["B"].ret[1].decision = "approved"
    /\ sessions["A"].pc = "polling"
    /\ bot.queue # <<>>
    /\ bot.queue[1].data = <<"acp", "deny", RequestOf["A"]>>

\* the response of a Telegram session that timed out
IsTelegramTimeout(response) ==
    /\ response.decision = "denied"
    /\ response.approver_id = "system_timeout"
    /\ response.channel = "telegram"
    /\ response.reason = "Request timed out"

\* C27: the Telegram session tolerates transport failures while polling: a
\* poll that raises leaves the session polling, poll_interval later, with no
\* error and no response; no step of the poll loop ends in an exception; a
\* session that ends without a callback of its own ends, at or after its
\* deadline, with denied / system_timeout / telegram / "Request timed out",
\* whether or not the message can be edited; and every polling session ends.
C27_ToleratesFailures ==
    /\ [][\A s \in TgSessions :
            sessions[s].pc = "polling" =>
              /\ sessions'[s].exc = None
              /\ sessions'[s].pc \in {"polling", "done"}
              /\ (sessions'[s].pc = "polling" /\ sessions'[s] # sessions[s]
                    /\ sessions'[s].last_update_id = sessions[s].last_update_id) =>
                   /\ sessions'[s].elapsed >= sessions[s].elapsed + poll_interval
                   /\ sessions'[s].ret = <<>>
              /\ (sessions'[s].pc = "done" /\ ~ResolvedByCallback(s)) =>
                   /\ sessions'[s].ret # <<>>
                   /\ IsTelegramTimeout(sessions'[s].ret[1])
                   /\ sessions[s].elapsed >= sessions[s].timeout_seconds]_vars
    /\ \A s \in TgSessions : (sessions[s].pc = "polling") ~> (sessions[s].pc = "done")

\* session A is still polling 3 time units in without having taken an
\* update: its first poll raised after 1 and it slept poll_interval
C27_Witness ==
    /\ sessions["A"].pc = "polling"
    /\ sessions["A"].elapsed = 3
    /\ sessions["A"].last_update_id = 0
    /\ sessions["A"].ret = <<>>
    /\ sessions["A"].exc = None

\* the k-th update the bot holds is a button of session s that s, still
\* polling, has not been handed yet
Undelivered(s, k) ==
    /\ sessions[s].pc = "polling"
    /\ \E a \in {"approve", "deny"} : bot.queue[k].data = <<"acp", a, RequestOf[s]>>
    /\ UpdateId(k) > sessions[s].last_update_id

\* C28: concurrent sessions are independent: with two Telegram sessions on
\* one bot, a human's approve or deny for a request stays with the bot until
\* the session of that request has been handed it; it is never consumed or
\* lost because of the other session's polling.
C28_CallbackDelivered ==
    [][\A s \in TgSessions : \A k \in DOMAIN bot.queue :
         Undelivered(s, k) =>
           \/ UpdateId(k) > bot'.confirmed
           \/ sessions'[s].pc = "done"
           \/ sessions'[s].last_update_id >= UpdateId(k)]_vars

\* the responses a gateway session can return for a denial decided by a
\* human: those the poll loop builds from a status reply
HumanDenials(rid) ==
    { PollOutcome(status_data, rid).response :
        status_data \in { d \in StatusReplies(rid) :
                            /\ PollOutcome(d, rid).kind = "return"
                            /\ PollOutcome(d, rid).response.decision = "denied" } }

\* C29: a policy auto-denial by the remote authority is distinguishable from
\* a human denial through channel and reason: the (channel, reason) pair of
\* an auto-denied response differs from that of every human-denied response
\* the session can return.
C29_AutoDenialDistinct ==
    (Finished /\ ret # <<>> /\ channels = {"gateway"} /\ AutoDeniedReply
       /\ ~AutoApprovedReply /\ sess.polls = 0) =>
        \A human \in HumanDenials(call.request_id) :
            <<ret[1].channel, ret[1].reason>> # <<human.channel, human.reason>>

\* C30: canonical_json is independent of key insertion order and stable
\* under round trip: two values with the same key/value pairs inserted in
\* different orders canonicalize to the same text, the order of a sequence is
\* kept, and canonicalizing the parse of canonical_json(v) yields
\* canonical_json(v) again.
C30_Canonical ==
    canonicalized # <<>> =>
        LET c == canonicalized[1]
            elems == IF "l" \in DOMAIN c.v THEN c.v.l
                     ELSE IF "tuple" \in DOMAIN c.v THEN c.v.tuple ELSE <<>>
        IN  /\ c.other = c.text
            /\ c.again = c.text
            /\ ("l" \in DOMAIN c.v \/ "tuple" \in DOMAIN c.v) =>
                 /\ Len(loads(c.text).l) = Len(elems)
                 /\ \A i \in 1..Len(elems) :
                      dumps(loads(c.text).l[i]) = canonical_json(elems[i])

\* the session was ended by a status reply with one of the three terminal
\* statuses
TerminalStatuses == {"approved", "denied", "expired"}

EndedByStatus ==
    /\ Finished
    /\ sess.reply # <<>>
    /\ sess.status \in TerminalStatuses

\* the status reply that ended the session carried no response payload (the
\* key is missing)
WithoutPayload == "response" \notin DOMAIN sess.reply[1]

\* C31: when a poll returns a terminal status without an embedded response
\* payload, the session returns a ConsentResponse whose decision is that
\* status: approved for approved, denied for denied, expired for expired.
C31_StatusDecision ==
    (EndedByStatus /\ WithoutPayload) =>
        /\ ret # <<>>
        /\ ret[1].decision = sess.status

\* the last status reply had a terminal status and a response key
TerminalWithPayloadKey ==
    /\ sess.reply # <<>>
    /\ sess.status \in TerminalStatuses
    /\ "response" \in DOMAIN sess.reply[1]

\* the response a terminal status reply carries; <<>> is the empty object {}
Payload == sess.reply[1].response

\* what parsing a payload gives: a response with the payload's fields, decision
\* denied when the payload has none, or no response when the decision is not a
\* ConsentDecision value
ParsedAndStopped(data) ==
    /\ Finished
    /\ IF "decision" \in DOMAIN data /\ data.decision \notin ConsentDecision
       THEN /\ ret = <<>>
            /\ exc.type = "ValueError"
            /\ responses = 0
       ELSE /\ ret = << from_dict(data) >>
            /\ "decision" \notin DOMAIN data => ret[1].decision = "denied"
            /\ "decision" \in DOMAIN data => ret[1].decision = data.decision

\* the empty object {} as a payload: it has no decision field
EmptyParsedAndStopped ==
    /\ Finished
    /\ ret # <<>>
    /\ ret[1].decision = "denied"
    /\ ret[1].approver_id = "unknown"
    /\ ret[1].reason = None

\* C32 as stated: when a poll returns a terminal status together with an
\* embedded response payload, whatever the payload, the session returns exactly
\* the response parsed from that payload and stops; a payload without a
\* decision parses to denied, a decision outside the ConsentDecision values is
\* rejected.
C32_AsClaimed ==
    TerminalWithPayloadKey =>
        IF Payload = <<>> THEN EmptyParsedAndStopped ELSE ParsedAndStopped(Payload[1])

\* C32: when a poll returns a terminal status together with a non-empty
\* embedded response payload, the session returns exactly the response parsed
\* from that payload and stops; a payload without a decision parses to denied,
\* a decision outside the ConsentDecision values is rejected and no response is
\* returned.  An empty payload is treated as absent: the response is then
\* built from the status.
C32_PayloadParsed ==
    TerminalWithPayloadKey =>
        IF Payload = <<>>
        THEN /\ Finished
             /\ ret # <<>>
             /\ ret[1].decision = (IF sess.status = "approved" THEN "approved" ELSE "denied")
             /\ ret[1].reason = StatusReason(sess.status)
        ELSE ParsedAndStopped(Payload[1])

\* a session ended by status approved whose payload has no decision: the
\* response is denied
C32_Witness ==
    /\ Finished
    /\ TerminalWithPayloadKey
    /\ sess.status = "approved"
    /\ Payload # <<>>
    /\ "decision" \notin DOMAIN Payload[1]
    /\ ret # <<>>
    /\ ret[1].decision = "denied"

\* the last status reply had no status, or one that is neither pending nor
\* terminal
OtherStatus(session) ==
    /\ session.reply # <<>>
    /\ session.status \notin TerminalStatuses \cup {"pending"}

\* every status reply of the session had no terminal status
NoTerminalStatus ==
    /\ sess.polls > 0
    /\ sess.seen \cap (TerminalStatuses \cup {"poll failed"}) = {}

\* C33: a poll whose status is neither pending nor approved, denied or expired
\* (a missing status, escalated, deferred) does not end the gateway session:
\* the step leaves the session in Polling with no response and no error, as
\* the step for a pending reply does, and a session that saw no terminal status
\* ends only at the deadline, with the timeout response.
C33_KeepsPolling ==
    /\ [][(pc = "polling" /\ sess'.polls = sess.polls + 1 /\ OtherStatus(sess'))
            => /\ pc' = "polling"
               /\ ret' = <<>>
               /\ exc' = NoException
               /\ responses' = responses
               /\ sess'.request_id = sess.request_id
               /\ sess'.start = sess.start
               /\ now' - now \in IterationTimes]_vars
    /\ []((Finished /\ NoTerminalStatus /\ sess.seen \ {"pending"} # {}) =>
            /\ ret = << TimeoutResponse(sess.request_id) >>
            /\ ~LoopCondition(now, sess.start, Self.timeout_seconds))

\* a session still polling after a reply without a status and one with
\* status escalated
C33_Witness ==
    /\ pc = "polling"
    /\ sess.polls = 2
    /\ sess.seen = {None, "escalated"}
    /\ OtherStatus(sess)
    /\ ret = <<>>

\* the deadline of the session: T0 + timeout_seconds
Deadline == sess.start + Self.timeout_seconds

\* the step is one iteration of the poll loop: a status query is issued
\* POLL_SLEEP after the loop condition was read at time now
Queries == pc = "polling" /\ sess'.polls = sess.polls + 1

\* C34: the gateway session queries status only until the deadline: no status
\* query is issued at or after T0 + timeout_seconds and no decision received
\* after the deadline is accepted; each query comes after a wait of POLL_SLEEP;
\* with timeout_seconds <= 0 no query is issued.
C34_UntilDeadline ==
    [][Queries =>
         /\ now + POLL_SLEEP < Deadline
         /\ (ret' # <<>> => now' <= Deadline)
         /\ now' >= now + POLL_SLEEP
         /\ Self.timeout_seconds > 0]_vars

\* the handlers and channels request_consent can consult
Consulted == {"on_consent", "gateway", "telegram", "local"}

\* the response of the local auto-approve shortcut
IsShortcutResponse(response) ==
    /\ response.request_id = call.request_id
    /\ response.decision = "approved"
    /\ response.approver_id = "policy_auto"
    /\ response.channel = "auto"
    /\ response.auto_approved

\* C35: the local auto-approve shortcut of request_consent fires only when
\* auto_approve_low_risk is enabled and the effective risk level of the call is
\* low; it then returns approved, approver policy_auto, channel auto,
\* auto_approved true before any handler or channel is contacted.  In every
\* other case no response exists unless the on_consent handler or the selected
\* channel was consulted.
C35_ShortcutOnlyLowRisk ==
    call.kind = "call" =>
        /\ (ret # <<>> /\ channels \cap Consulted = {}) =>
              /\ call.low_risk
              /\ IsShortcutResponse(ret[1])
              /\ sess.submits = 0
        /\ (call.low_risk /\ call.request # <<>>) =>
              /\ ret # <<>>
              /\ IsShortcutResponse(ret[1])
              /\ channels = {"policy_auto"}
        /\ (~call.low_risk /\ ret # <<>>) =>
              /\ channels \cap Consulted # {}
              /\ "policy_auto" \notin channels

\* a low-risk call on a client with the flag set and a gateway configured,
\* answered by the shortcut without a submit
C35_Witness ==
    /\ pc = "done"
    /\ call.kind = "call"
    /\ call.low_risk
    /\ Self.auto_approve_low_risk
    /\ Self._mode = "gateway"
    /\ ret # <<>>
    /\ IsShortcutResponse(ret[1])
    /\ channels = {"policy_auto"}
    /\ sess.submits = 0

\* the last line read, trimmed and lower-cased, is one of the given words
LastLineIs(words) ==
    /\ terminal.line # <<>>
    /\ terminal.line[1] \in AnswerLines
    /\ terminal.line[1].text \in words

\* input() ended with end of input or an interrupt
NoInput == terminal.line # <<>> /\ terminal.line[1] \in InputErrors

\* C36: the plain local prompt is fail-closed and blocks until answered: it
\* returns approved only if the last line read, trimmed and lower-cased, is one
\* of a, approve, y, yes; it returns denied for d, deny, n, no and on end of
\* input or an interrupt; on any other input it produces no response and
\* prompts again; the response has approver_id local_user and channel terminal.
C36_PlainPrompt ==
    /\ terminal.ret # <<>> =>
         /\ terminal.pc = "returned"
         /\ terminal.ret[1].decision \in {"approved", "denied"}
         /\ terminal.ret[1].decision = "approved" <=>
               LastLineIs({"a", "approve", "y", "yes"})
         /\ terminal.ret[1].decision = "denied" <=>
               (LastLineIs({"d", "deny", "n", "no"}) \/ NoInput)
         /\ terminal.ret[1].approver_id = "local_user"
         /\ terminal.ret[1].channel = "terminal"
    /\ (LastLineIs({"a", "approve", "y", "yes", "d", "deny", "n", "no"}) \/ NoInput) =>
         terminal.ret # <<>>
    /\ (terminal.reads > 0 /\ terminal.ret = <<>>) =>
         /\ terminal.pc = "prompting"
         /\ LastLineIs({"maybe", "approved", ""})

\* the prompt returned approved on the third line, " YES ", after two lines it
\* did not take
C36_Witness ==
    /\ terminal.pc = "returned"
    /\ terminal.reads = 3
    /\ terminal.line = << [text |-> "yes", spelling |-> Padded] >>
    /\ terminal.ret[1].decision = "approved"

\* C37: the result of the gateway session agrees with the reported terminal
\* status: when the poll that ends the session has status denied or expired,
\* the returned response is not approved, with or without an embedded payload.
C37_AgreesWithStatus ==
    (EndedByStatus /\ sess.status \in {"denied", "expired"} /\ ret # <<>>) =>
        ~approved(ret[1])

\* C38: whenever the authority's reply to the submit has auto_denied set, the
\* gateway session returns decision denied without polling, whatever other
\* fields (auto_approved among them) the reply carries.
C38_AutoDeniedWins ==
    (AutoDeniedReply /\ "request_id" \in DOMAIN sess.data[1]) =>
        /\ Finished
        /\ sess.polls = 0
        /\ ret # <<>>
        /\ ret[1].decision = "denied"

\* the callbacks of session s's request in the reply getUpdates would give it
\* now, as positions of the bot's queue
OwnCallbacks(s) ==
    { k \in Batch(sessions[s].last_update_id + 1) :
        IsForRequest(bot.queue[k], RequestOf[s]) }

\* the step is an iteration of session s's poll loop in which getUpdates
\* replied (a failed getUpdates leaves last_update_id as it is)
ReplyReceived(s) ==
    /\ sessions[s].pc = "polling"
    /\ LoopCondition(sessions[s].elapsed, 0, sessions[s].timeout_seconds)
    /\ \/ sessions'[s].pc = "done"
       \/ sessions'[s].last_update_id # sessions[s].last_update_id

\* C39: in the Telegram session a human decision is never lost once received:
\* if a getUpdates reply contains a callback tagged with this request's id, the
\* session returns the corresponding decision (approve -> approved, deny ->
\* denied), also when answerCallbackQuery or editMessageText fails; the
\* callback is not discarded.
C39_DecisionNotLost ==
    [][(ReplyReceived("A") /\ OwnCallbacks("A") # {}) =>
         /\ sessions'["A"].pc = "done"
         /\ \E k \in OwnCallbacks("A") :
              /\ \A j \in OwnCallbacks("A") : k <= j
              /\ sessions'["A"].ret = << CallbackResponse(RequestOf["A"], bot.queue[k]) >>]_vars

====
